---- MODULE Spec2Model ----
(***************************************************************************)
(* Model of the employee/sales cleaning pipeline (Luisa-24/Poo_practica).  *)
(*                                                                         *)
(* SpecSales : sales_cleaner.clean_data applied to bounded sales and       *)
(*             employee tables with datetime64 date columns; employee ids  *)
(*             may repeat and the sales row labels may be reversed         *)
(*             (src/src/cleaners/sales_cleaner.py).                        *)
(* SpecCoerce: the same call on tables as read from CSV: dates are         *)
(*             strings and required columns may be missing.                *)
(* SpecTwice : clean_data called a second time on its own result, with     *)
(*             employee tables in which every identifier is unique.        *)
(* SpecPhone : phone_cleaner.phone_clean_and_validate applied to bounded   *)
(*             inputs (src/src/cleaners/field_cleaners/phone_cleaner.py).  *)
(* SpecEmail : email_cleaner.clean applied to bounded inputs, and to its   *)
(*             own output (src/src/cleaners/field_cleaners/                *)
(*             email_cleaner.py).                                          *)
(* SpecSaleRules : validators.validate_sales applied to one bounded sale   *)
(*             record (src/src/validators/sales_validator.py).             *)
(* SpecEmployeeRules : validators.validate_employees applied to one        *)
(*             bounded employee record                                     *)
(*             (src/src/validators/employees_validator.py).                *)
(* SpecEmployees : employees_cleaner.clean_data applied to bounded employee *)
(*             tables that have one or both of the required columns        *)
(*             (src/src/cleaners/employees_cleaner.py).                    *)
(* SpecRelations : RelationsValidator.validate_employee_ids_in_sales,      *)
(*             validate_employee_without_sales and                         *)
(*             validate_count_employees_without_sales applied in turn to   *)
(*             bounded tables (src/src/relations/Relations.py).            *)
(* SpecNames : validate_employee_ids_in_sales and                          *)
(*             validate_employee_names_in_sales applied in turn to bounded *)
(*             tables that hold names.                                     *)
(* SpecRun   : the steps of main from the loaded tables to the lists of    *)
(*             Employee and Sale objects: clean_employees, clean_sales,    *)
(*             validate_employees and validate_sales, then                 *)
(*             create_employee_instances and create_sale_instances         *)
(*             (src/__main__.py).                                          *)
(* SpecStats : the same steps followed by calculate_relations, on tables   *)
(*             that make reconciliation reassign sales.                    *)
(* SpecPool  : main from its start to the saved CSV files, with the tasks  *)
(*             it submits to its thread pools and the worker threads that  *)
(*             run them (src/__main__.py).                                 *)
(*                                                                         *)
(* A table (pandas DataFrame) is a record                                  *)
(*    [columns : set of column names,                                      *)
(*     dtype   : dtype of the table's date column,                         *)
(*     index   : sequence of row labels,                                   *)
(*     rows    : sequence of rows, each a function columns -> cell].       *)
(* A date cell is [k, d]: k = "ts" a Timestamp of day d, k = "nat" the     *)
(* missing marker NaT, k = "str" a string (d >= 0: the text of day d,      *)
(* d = -1: a text that is no date).                                        *)
(***************************************************************************)
EXTENDS Integers, Sequences, FiniteSets, TLC

VARIABLES
    pc,            \* position of the caller: before or after the call
    sales_df,      \* the caller's sales table object (mutated in place)
    employees_df,  \* the caller's employee table object
    sales_in,      \* the sales table as it was when clean_data was called
    employees_in,  \* the employee table as it was when clean_data was called
    result,        \* the table returned by clean_data
    phone,         \* argument of phone_clean_and_validate
    phone_out,     \* its return value
    email,         \* argument of email_cleaner.clean
    email_out,     \* its return value
    email_out2,    \* the return value of clean applied to email_out
    record,        \* the dict handed to the rule functions of a validator
    df_employees_clean,    \* main: the table clean_employees returned
    df_sales_clean,        \* main: the table clean_sales returned
    employee_validations,  \* main: the matrix validate_employees returned
    sales_validations,     \* main: the matrix validate_sales returned
    employees,     \* main: outcome of create_employee_instances
    sales,         \* main: outcome of create_sale_instances
    result2,       \* the table returned by clean_data called on its result
    employees_no_sales,    \* return of validate_employee_without_sales
    count_no_sales,        \* return of validate_count_employees_without_sales
    invalid_names,         \* return of validate_employee_names_in_sales
    relation_stats,        \* main: the mapping calculate_relations returned
    tasks          \* main: the future of each task submitted to a thread pool

vars == <<pc, sales_df, employees_df, sales_in, employees_in, result,
          phone, phone_out, email, email_out, email_out2,
          record, df_employees_clean, df_sales_clean,
          employee_validations, sales_validations, employees, sales,
          result2, employees_no_sales, count_no_sales, invalid_names,
          relation_stats, tasks>>

salesVars == <<sales_df, employees_df, sales_in, employees_in, result,
               result2>>
phoneVars == <<phone, phone_out>>
emailVars == <<email, email_out, email_out2>>
runVars == <<record, df_employees_clean, df_sales_clean,
             employee_validations, sales_validations, employees, sales>>
relationVars ==
    <<employees_no_sales, count_no_sales, invalid_names, relation_stats>>

(***************************************************************************)
(* Bounds                                                                  *)
(***************************************************************************)
MaxEmps == 2
MaxSales == 2
\* free characters around the fixed part of a phone or email text: the text
\* is pre \o fixed \o post with Len(pre) + Len(post) <= MaxFree
MaxFree == 3
\* length of the run of digits in a phone text
MaxPad == 11

(***************************************************************************)
(* Cells                                                                   *)
(***************************************************************************)
Ts(d) == [k |-> "ts", d |-> d]
NaT == [k |-> "nat", d |-> -1]
Str(d) == [k |-> "str", d |-> d]
BadStr == [k |-> "str", d |-> -1]
\* NaN in a non-date cell (the cell of a row pandas adds by enlargement)
NaN == -1
\* a float NaN in a date column of dtype object (an empty CSV field)
NaNCell == [k |-> "nan", d |-> -1]

\* a Python scalar: its type and the text str() gives for it
PyStr(s) == [t |-> "str", v |-> s]
PyNone == [t |-> "NoneType", v |-> <<"N", "o", "n", "e">>]
PyInt0 == [t |-> "int", v |-> <<"0">>]
PyInt1 == [t |-> "int", v |-> <<"1">>]
PyFloatNan == [t |-> "float", v |-> <<"n", "a", "n">>]
\* an int or a float that is a number: v is the quantity itself or the
\* price in thousandths
PyNum(n) == [t |-> "number", v |-> n]
PyBool(b) == [t |-> "bool", v |-> b]
\* the values of a date cell as to_dict(orient="records") hands them out:
\* a Timestamp of day v, NaT, a float NaN, or a string (DateStr: the text
\* of day v, of no date for v = -1)
PyTimestamp(d) == [t |-> "Timestamp", v |-> d]
PyNaT == [t |-> "NaTType", v |-> -1]
PyDateStr(d) == [t |-> "datestr", v |-> d]

\* the days of the test tables: 2021-01-01, 2022-01-01, 2022-01-02
Days == {0, 1, 2}
\* the employee ids of the test tables
EmployeeIds == {1, 2}
\* seller ids: every employee id and one id no employee has
SellerIds == EmployeeIds \cup {3}

DatetimeCells == {Ts(d) : d \in Days} \cup {NaT}
ObjectCells == {Str(d) : d \in Days} \cup {BadStr}

NoTable == [columns |-> {}, dtype |-> "object", index |-> <<>>, rows |-> <<>>]

\* the outcome of create_employee_instances / create_sale_instances: the
\* list of the rows made into objects, or the exception that left the call
NotCreated == [kind |-> "none", items |-> <<>>]
Created(rows) == [kind |-> "list", items |-> rows]
Raised(error) == [kind |-> error, items |-> <<>>]

(***************************************************************************)
(* sales_cleaner.py                                                        *)
(***************************************************************************)
\* pd.to_datetime(value, errors="coerce") on one cell
ToDatetime(c) ==
    IF c.k = "ts" THEN c
    ELSE IF c.k = "str" /\ c.d >= 0 THEN Ts(c.d)
    ELSE NaT

\* ensure_datetime(df, col): converts the column in place unless it already
\* has a datetime dtype
ensure_datetime(df, col) ==
    IF df.dtype # "datetime64"
    THEN [df EXCEPT !.dtype = "datetime64",
                    !.rows = [i \in 1..Len(df.rows) |->
                                [df.rows[i] EXCEPT ![col] = ToDatetime(@)]]]
    ELSE df

\* a < b and a <= b on datetime cells: any comparison with NaT is False
DateLt(a, b) == a.k = "ts" /\ b.k = "ts" /\ a.d < b.d
DateLe(a, b) == a.k = "ts" /\ b.k = "ts" /\ a.d <= b.d

\* the rows one sale contributes to the left join: one per employee row with
\* employee_id = seller_employee_id, in employee table order, or a single row
\* with a missing hire_date when there is none
MergeOne(s, erows) ==
    LET m == SelectSeq(erows, LAMBDA e : e.employee_id = s.seller_employee_id)
    IN IF m = <<>>
       THEN << [sale_date |-> s.sale_date, hire_date |-> NaT] >>
       ELSE [i \in 1..Len(m) |->
                [sale_date |-> s.sale_date, hire_date |-> m[i].hire_date]]

\* sales_df.merge(employees_df[["employee_id","hire_date"]], how="left"):
\* the result has a fresh index 0, 1, 2, ...; row i of the sequence has
\* index label i - 1
RECURSIVE Merge(_, _)
Merge(srows, erows) ==
    IF srows = <<>> THEN <<>>
    ELSE MergeOne(Head(srows), erows) \o Merge(Tail(srows), erows)

\* the employee filter with the comparison turned round
ValidEmpsHiredAfter(erows, sale_date) ==
    SelectSeq(erows, LAMBDA e : DateLe(sale_date, e.hire_date))

\* employees_df[employees_df["hire_date"] <= sale_date]
ValidEmps(erows, sale_date) ==
    SelectSeq(erows, LAMBDA e : DateLe(e.hire_date, sale_date))

\* the row pandas appends when .at writes to a label that is not in the index
EnlargedRow(df, v) ==
    [c \in df.columns |->
        IF c = "seller_employee_id" THEN v
        ELSE IF c = "sale_date" THEN NaT
        ELSE IF c = "sale_id" THEN NaN
        ELSE PyFloatNan]

\* sales_df.loc[label] = v: the write without the column
AtSetRow(df, label, v) ==
    IF \E j \in 1..Len(df.index) : df.index[j] = label
    THEN [df EXCEPT !.rows = [j \in 1..Len(df.rows) |->
                IF df.index[j] = label
                THEN [c \in df.columns |-> IF c = "sale_date" THEN NaT ELSE v]
                ELSE df.rows[j]]]
    ELSE [df EXCEPT !.index = Append(@, label),
                    !.rows = Append(@, EnlargedRow(df, v))]

\* sales_df.at[label, "seller_employee_id"] = v
AtSetSeller(df, label, v) ==
    IF \E j \in 1..Len(df.index) : df.index[j] = label
    THEN [df EXCEPT !.rows = [j \in 1..Len(df.rows) |->
                IF df.index[j] = label
                THEN [df.rows[j] EXCEPT !["seller_employee_id"] = v]
                ELSE df.rows[j]]]
    ELSE [df EXCEPT !.index = Append(@, label),
                    !.rows = Append(@, EnlargedRow(df, v))]

\* the reassignment loop of clean_data over merged rows i..Len(merged), in
\* ascending index order
RECURSIVE Reassign(_, _, _, _)
Reassign(df, merged, erows, i) ==
    IF i > Len(merged) THEN df
    ELSE IF DateLt(merged[i].sale_date, merged[i].hire_date)
         THEN LET valid_emps == ValidEmps(erows, merged[i].sale_date)
              IN IF valid_emps # <<>>
                 THEN Reassign(AtSetSeller(df, i - 1, valid_emps[1].employee_id),
                               merged, erows, i + 1)
                 ELSE Reassign(df, merged, erows, i + 1)
         ELSE Reassign(df, merged, erows, i + 1)

\* the same loop taken over the merged rows in the order given: order is a
\* sequence of positions of merged
RECURSIVE ReassignInOrder(_, _, _, _)
ReassignInOrder(df, merged, erows, order) ==
    IF order = <<>> THEN df
    ELSE LET i == Head(order)
             valid_emps == ValidEmps(erows, merged[i].sale_date)
         IN IF valid_emps # <<>>
            THEN ReassignInOrder(
                     AtSetSeller(df, i - 1, valid_emps[1].employee_id),
                     merged, erows, Tail(order))
            ELSE ReassignInOrder(df, merged, erows, Tail(order))

required_sales_cols == {"sale_date", "seller_employee_id"}
required_employee_cols == {"employee_id", "hire_date"}

\* clean_data with the date coercion of sale_date ahead of the column checks
clean_data_coerce_first(sdf, edf) ==
    LET s0 == IF "sale_date" \in sdf.columns
              THEN ensure_datetime(sdf, "sale_date") ELSE sdf
    IN IF ~(required_sales_cols \subseteq s0.columns) THEN <<s0, edf>>
       ELSE IF ~(required_employee_cols \subseteq edf.columns) THEN <<s0, edf>>
       ELSE LET e1 == ensure_datetime(edf, "hire_date")
                merged == Merge(s0.rows, e1.rows)
            IN <<Reassign(s0, merged, e1.rows, 1), e1>>

\* clean_data(sales_df, employees_df): the pair of the sales table object
\* and the employee table object after the call; the sales table object is
\* also the value returned
clean_data(sdf, edf) ==
    IF ~(required_sales_cols \subseteq sdf.columns) THEN <<sdf, edf>>
    ELSE IF ~(required_employee_cols \subseteq edf.columns) THEN <<sdf, edf>>
    ELSE LET s1 == ensure_datetime(sdf, "sale_date")
             e1 == ensure_datetime(edf, "hire_date")
             merged == Merge(s1.rows, e1.rows)
         IN <<Reassign(s1, merged, e1.rows, 1), e1>>

(***************************************************************************)
(* Strings                                                                 *)
(***************************************************************************)
\* strings are sequences of one-character strings
DigitChars == {"0", "1", "7"}
LowerChars == {"n", "a", "p", "e", "d", "i", "g", "c", "o", "m", "l", "t"}
UpperChars == {"N", "P", "C"}
SpaceChars == {" "}

\* str.swapcase() in the place of str.lower()
LowerCharSwap(c) ==
    CASE c = "N" -> "n" [] c = "n" -> "N"
      [] c = "P" -> "p" [] c = "p" -> "P"
      [] c = "C" -> "c" [] c = "c" -> "C"
      [] OTHER -> c

\* str.lower()
LowerChar(c) ==
    CASE c = "N" -> "n" [] c = "P" -> "p" [] c = "C" -> "c" [] OTHER -> c
Lower(s) == [i \in 1..Len(s) |-> LowerChar(s[i])]

\* str.lstrip(chars)
RECURSIVE LStrip(_, _)
LStrip(s, chars) ==
    IF s # <<>> /\ Head(s) \in chars THEN LStrip(Tail(s), chars) ELSE s

\* str.rstrip(chars)
RECURSIVE RStrip(_, _)
RStrip(s, chars) ==
    IF s # <<>> /\ s[Len(s)] \in chars
    THEN RStrip(SubSeq(s, 1, Len(s) - 1), chars) ELSE s

\* str.strip()
Strip(s) == RStrip(LStrip(s, SpaceChars), SpaceChars)

NanStr == <<"n", "a", "n">>

(***************************************************************************)
(* field_cleaners/phone_cleaner.py                                         *)
(***************************************************************************)
\* str(phone) if phone is not None else ""
PhoneStr(x) == IF x.t = "NoneType" THEN <<>> ELSE x.v

\* extract_digits(phone): re.sub(r"\D", "", phone_str), "" for an empty
\* text and for "nan" in any case
extract_digits(x) ==
    LET phone_str == PhoneStr(x)
    IN IF phone_str = <<>> \/ Lower(phone_str) = NanStr THEN <<>>
       ELSE SelectSeq(phone_str, LAMBDA c : c \in DigitChars)

\* phone_is_valid(phone)
phone_is_valid(x) ==
    LET digits == extract_digits(x)
    IN IF Len(digits) = 10 THEN TRUE
       ELSE IF Len(digits) = 11 /\ digits[1] = "1" THEN TRUE
       ELSE FALSE

\* clean_zeroes without the lstrip("0")
clean_zeroes_kept(x) == extract_digits(x)

\* clean_zeroes(phone)
clean_zeroes(x) ==
    LET digits == extract_digits(x)
    IN LStrip(digits, {"0"})

InvalidPhone == [i \in 1..10 |-> "0"]

\* phone_clean_and_validate(phone)
phone_clean_and_validate(x) ==
    LET phone_str == PhoneStr(x)
        digits == extract_digits(PyStr(phone_str))
        cleaned == clean_zeroes(PyStr(digits))
    IN IF \/ phone_str = <<>>
          \/ Lower(phone_str) = NanStr
          \/ ~phone_is_valid(PyStr(cleaned))
       THEN InvalidPhone
       ELSE IF cleaned # <<>> THEN cleaned
       ELSE InvalidPhone

\* employees_cleaner.phone_number_cleaner(phone): the result of
\* phone_clean_and_validate is never None, so it is passed on as it is
phone_number_cleaner(x) == phone_clean_and_validate(x)

(***************************************************************************)
(* field_cleaners/email_cleaner.py                                         *)
(***************************************************************************)
LetterChars == LowerChars \cup UpperChars
\* [a-zA-Z0-9._%+-]
LocalChars == LetterChars \cup DigitChars \cup {".", "_", "%", "+", "-"}
\* [a-zA-Z0-9.-]
DomainChars == LetterChars \cup DigitChars \cup {".", "-"}

\* the pattern with a top-level domain of one letter or more
EmailMatchShortTld(s) ==
    \E i \in 2..Len(s) :
        /\ s[i] = "@"
        /\ \A p \in 1..(i - 1) : s[p] \in LocalChars
        /\ \E j \in (i + 2)..(Len(s) - 1) :
              /\ s[j] = "."
              /\ \A p \in (i + 1)..(j - 1) : s[p] \in DomainChars
              /\ \A p \in (j + 1)..Len(s) : s[p] \in LetterChars

\* re.match(EMAIL_PATTERN, s): s = local "@" domain "." tld with the at
\* sign at position i and the last dot of the match at position j
EmailMatch(s) ==
    \E i \in 2..Len(s) :
        /\ s[i] = "@"
        /\ \A p \in 1..(i - 1) : s[p] \in LocalChars
        /\ \E j \in (i + 2)..(Len(s) - 2) :
              /\ s[j] = "."
              /\ \A p \in (i + 1)..(j - 1) : s[p] \in DomainChars
              /\ \A p \in (j + 1)..Len(s) : s[p] \in LetterChars

\* bool(_email)
Truthy(x) ==
    CASE x.t = "NoneType" -> FALSE
      [] x.t = "str" -> x.v # <<>>
      [] x.t = "int" -> x.v # <<"0">>
      [] x.t = "number" -> x.v # 0
      [] x.t = "bool" -> x.v
      [] OTHER -> TRUE

\* clean(_email); .strip() of a value that is no string raises inside the
\* try block, which returns "nan"
clean(x) ==
    IF ~Truthy(x) THEN PyStr(NanStr)
    ELSE IF x.t # "str" THEN PyStr(NanStr)
    ELSE LET cleaned == Lower(Strip(x.v))
         IN IF ~EmailMatch(cleaned) THEN PyStr(NanStr)
            ELSE PyStr(cleaned)

\* employees_cleaner.clean_email(email)
clean_email(x) == clean(x)

(***************************************************************************)
(* validators/sales_validator.py                                           *)
(***************************************************************************)
\* a dict is a function from its keys to Python values; a key that is not
\* in a dict under construction is marked Absent
Absent == [t |-> "absent", v |-> 0]
MakeDict(f) == [key \in {k \in DOMAIN f : f[k].t # "absent"} |-> f[key]]

\* d.get(key): None for a key the dict does not have
Get(d, key) == IF key \in DOMAIN d THEN d[key] ELSE PyNone

\* d.get(key) or d.get(ukey)
GetOr(d, key, ukey) ==
    IF Truthy(Get(d, key)) THEN Get(d, key) ELSE Get(d, ukey)

PendingText == <<"p", "e", "n", "d", "i", "n", "g">>
CompletedText == <<"c", "o", "m", "p", "l", "e", "t", "e", "d">>
CancelledText == <<"c", "a", "n", "c", "e", "l", "l", "e", "d">>
CanceledText == <<"c", "a", "n", "c", "e", "l", "e", "d">>

\* is_pending(sale)
is_pending(sale) ==
    LET status == GetOr(sale, "sale_status", "_sale_status")
    IN IF status.t = "str" THEN Lower(Strip(status.v)) = PendingText
       ELSE FALSE

\* is_completed(sale)
is_completed(sale) ==
    LET status == GetOr(sale, "sale_status", "_sale_status")
    IN IF status.t = "str" THEN Lower(Strip(status.v)) = CompletedText
       ELSE FALSE

\* is_cancelled that knows the spelling "cancelled" only
is_cancelled_one_spelling(sale) ==
    LET status == GetOr(sale, "sale_status", "_sale_status")
    IN IF ~Truthy(status) THEN FALSE
       ELSE IF status.t # "str" THEN FALSE
       ELSE Lower(status.v) = CancelledText

\* is_cancelled(sale): status.lower() of a value that is no string raises
\* inside the try block, which returns False
is_cancelled(sale) ==
    LET status == GetOr(sale, "sale_status", "_sale_status")
        valid_statuses == {CancelledText, CanceledText}
    IN IF ~Truthy(status) THEN FALSE
       ELSE IF status.t # "str" THEN FALSE
       ELSE Lower(status.v) \in valid_statuses

\* datetime.now(): some time of day on 2022-01-01, the day number 1 of Days
Today == 1

\* is_future_date(sale): a Timestamp (midnight of its day) is compared with
\* now; NaT compares False and a string or a float raises TypeError inside
\* the try block
is_future_date(sale) ==
    LET sale_date == GetOr(sale, "sale_date", "_sale_date")
    IN IF ~Truthy(sale_date) THEN FALSE
       ELSE IF sale_date.t = "Timestamp" THEN sale_date.v > Today
       ELSE FALSE

\* validate_prices(sale): a comparison with NaN is False, a comparison of
\* a string with 0 raises TypeError inside the try block
validate_prices(sale) ==
    LET unit_price == GetOr(sale, "unit_price", "_unit_price")
        total_price == GetOr(sale, "total_price", "_total_price")
    IN IF unit_price.t # "NoneType" /\ total_price.t # "NoneType"
       THEN /\ unit_price.t = "number" /\ total_price.t = "number"
            /\ unit_price.v >= 0 /\ total_price.v >= 0
       ELSE FALSE

\* 0.01 in thousandths
Tolerance == 10

Abs(x) == IF x < 0 THEN -x ELSE x

\* validate_total_price(sale): prices are in thousandths and the quantity
\* is a whole number, so that quantity * unit_price is exact; arithmetic
\* with NaN gives a comparison that is False
validate_total_price(sale) ==
    LET quantity == GetOr(sale, "quantity", "_quantity")
        unit_price == GetOr(sale, "unit_price", "_unit_price")
        total_price == GetOr(sale, "total_price", "_total_price")
    IN IF \/ quantity.t = "NoneType"
          \/ unit_price.t = "NoneType"
          \/ total_price.t = "NoneType"
       THEN FALSE
       ELSE IF \/ quantity.t # "number"
               \/ unit_price.t # "number"
               \/ total_price.t # "number"
       THEN FALSE
       ELSE LET expected_total == quantity.v * unit_price.v
            IN Abs(total_price.v - expected_total) < Tolerance

sales_validation_columns ==
    {"sale_id", "product_id", "is_pending", "is_completed", "is_cancelled",
     "is_future_date", "validate_prices", "validate_total_price"}

\* the row validate_sales builds for one sale
SaleValidationRow(sale) ==
    [c \in sales_validation_columns |->
        CASE c = "sale_id" -> GetOr(sale, "sale_id", "_sale_id")
          [] c = "product_id" -> GetOr(sale, "product_id", "_product_id")
          [] c = "is_pending" -> PyBool(is_pending(sale))
          [] c = "is_completed" -> PyBool(is_completed(sale))
          [] c = "is_cancelled" -> PyBool(is_cancelled(sale))
          [] c = "is_future_date" -> PyBool(is_future_date(sale))
          [] c = "validate_prices" -> PyBool(validate_prices(sale))
          [] c = "validate_total_price" -> PyBool(validate_total_price(sale))]

\* validate_sales(sales): the matrix, one row per sale, rows labelled
\* 0..n-1
validate_sales(sale_list) ==
    [i \in 1..Len(sale_list) |-> SaleValidationRow(sale_list[i])]

(***************************************************************************)
(* cleaners/employees_cleaner.py                                           *)
(***************************************************************************)
\* the positions i of 1..n with keep[i], in ascending order
RECURSIVE KeptPositions(_, _)
KeptPositions(keep, n) ==
    IF n = 0 THEN <<>>
    ELSE IF keep[n] THEN Append(KeptPositions(keep, n - 1), n)
    ELSE KeptPositions(keep, n - 1)

\* the table of the rows at the positions pos; the rows keep their labels
TakeRows(df, pos) ==
    [df EXCEPT !.index = [j \in 1..Len(pos) |-> df.index[pos[j]]],
               !.rows = [j \in 1..Len(pos) |-> df.rows[pos[j]]]]

\* pd.isna on a cell: identifiers are integers or NaN, the other cells are
\* Python values, of which None and the float NaN are missing
IsMissing(col, cell) ==
    IF col = "employee_id" THEN cell = NaN
    ELSE cell.t \in {"NoneType", "float"}

Male == PyStr(<<"M", "a", "l", "e">>)
Female == PyStr(<<"F", "e", "m", "a", "l", "e">>)
Other == PyStr(<<"O", "t", "h", "e", "r">>)
Unknown == PyStr(<<"U", "n", "k", "n", "o", "w", "n">>)

\* _gender_detector.get_gender(first_name), case_sensitive=False: five one
\* letter names stand for the names the detector's dictionary answers
\* with male, mostly_male, female, mostly_female and andy
get_gender(first_name) ==
    LET w == Lower(first_name)
    IN CASE w = <<"m">> -> "male"
         [] w = <<"o">> -> "mostly_male"
         [] w = <<"a">> -> "female"
         [] w = <<"e">> -> "mostly_female"
         [] w = <<"i">> -> "andy"
         [] OTHER -> "unknown"

\* the first word of a text that starts with no blank
RECURSIVE WordAt(_)
WordAt(s) ==
    IF s = <<>> \/ Head(s) \in SpaceChars THEN <<>>
    ELSE <<Head(s)>> \o WordAt(Tail(s))

\* infer_gender_from_name(name): name.split() of a value that is no string
\* and [0] of an empty list of words raise inside the try block, which
\* returns "Unknown"
infer_gender_from_name(name) ==
    LET first_name ==
            IF ~Truthy(name) THEN <<>>
            ELSE WordAt(LStrip(name.v, SpaceChars))
        guess == get_gender(first_name)
    IN IF Truthy(name) /\ name.t # "str" THEN Unknown
       ELSE IF Truthy(name) /\ LStrip(name.v, SpaceChars) = <<>> THEN Unknown
       ELSE IF guess \in {"male", "mostly_male"} THEN Male
       ELSE IF guess \in {"female", "mostly_female"} THEN Female
       ELSE IF guess = "andy" THEN Other
       ELSE Unknown

\* clean_gender_from_name that keeps a stored gender of the three labels
clean_gender_trusting(name, current_gender) ==
    IF current_gender \in {Male, Female, Other} THEN current_gender
    ELSE infer_gender_from_name(name)

\* clean_gender_from_name(name, current_gender)
clean_gender_from_name(name, current_gender) ==
    LET inferred == infer_gender_from_name(name)
    IN IF current_gender # inferred THEN inferred ELSE current_gender

required_cols == {"employee_id", "name"}

\* employees_cleaner.clean_data(df), imported by main as clean_employees:
\* works on a copy; dropna runs only when both required columns exist
clean_employees(df) ==
    LET missing_cols == required_cols \ df.columns
        d1 == IF missing_cols # {} THEN df
              ELSE TakeRows(df, KeptPositions(
                      [i \in 1..Len(df.rows) |->
                          \A c \in required_cols :
                              ~IsMissing(c, df.rows[i][c])],
                      Len(df.rows)))
    IN [d1 EXCEPT !.columns = @ \ {"age"},
                  !.rows = [i \in 1..Len(d1.rows) |->
                     [c \in d1.columns \ {"age"} |->
                        IF c = "phone"
                        THEN PyStr(phone_number_cleaner(d1.rows[i][c]))
                        ELSE IF c = "email" THEN clean_email(d1.rows[i][c])
                        ELSE IF c = "gender" /\ "name" \in d1.columns
                        THEN clean_gender_from_name(d1.rows[i]["name"],
                                                    d1.rows[i][c])
                        ELSE d1.rows[i][c]]]]

(***************************************************************************)
(* validators/employees_validator.py                                       *)
(***************************************************************************)
\* the number of days from 2021-01-01 to the day d: the days 1 and 2 of
\* Days are 2022-01-01 and 2022-01-02, any other d counts days itself
Ordinal(d) == CASE d = 1 -> 365 [] d = 2 -> 366 [] OTHER -> d

NotADate == [t |-> "raised", v |-> -1]

\* pd.to_datetime(value) on a value that is no Timestamp: a date text gives
\* its Timestamp, NaT stays NaT, any other text raises
ToTimestamp(x) ==
    CASE x.t = "Timestamp" -> x
      [] x.t = "NaTType" -> x
      [] x.t = "datestr" /\ x.v # -1 -> PyTimestamp(x.v)
      [] OTHER -> NotADate

\* termination_is_after_hire(employee): (NaT - t).days is NaN and
\* NaN >= 1 is False
termination_is_after_hire(employee) ==
    LET hire == GetOr(employee, "hire_date", "_hire_date")
        termination ==
            GetOr(employee, "termination_date", "_termination_date")
    IN IF ~Truthy(hire) \/ ~Truthy(termination) THEN PyNone
       ELSE IF hire.t = "float" \/ termination.t = "float" THEN PyNone
       ELSE LET h == ToTimestamp(hire)
                t == ToTimestamp(termination)
            IN IF h.t = "raised" \/ t.t = "raised" THEN PyNone
               ELSE IF h.t = "NaTType" \/ t.t = "NaTType" THEN PyBool(FALSE)
               ELSE LET days_between == Ordinal(t.v) - Ordinal(h.v)
                    IN PyBool(days_between >= 1)

\* termination_is_after_birthdate(employee)
termination_is_after_birthdate(employee) ==
    LET birthdate == GetOr(employee, "birthdate", "_birthdate")
        termination ==
            GetOr(employee, "termination_date", "_termination_date")
    IN IF ~Truthy(birthdate) \/ ~Truthy(termination) THEN PyNone
       ELSE IF birthdate.t = "float" \/ termination.t = "float" THEN PyNone
       ELSE LET b == ToTimestamp(birthdate)
                t == ToTimestamp(termination)
            IN IF b.t = "raised" \/ t.t = "raised" THEN PyNone
               ELSE IF b.t = "NaTType" \/ t.t = "NaTType" THEN PyBool(FALSE)
               ELSE LET days_between == Ordinal(t.v) - Ordinal(b.v)
                        years_between == days_between \div 365
                    IN PyBool(years_between >= 18)

employee_validation_columns ==
    {"employee_id", "name", "termination_is_after_hire",
     "termination_is_after_birthdate"}

\* the row validate_employees builds for one employee
EmployeeValidationRow(emp) ==
    [c \in employee_validation_columns |->
        CASE c = "employee_id" -> GetOr(emp, "employee_id", "_employee_id")
          [] c = "name" -> GetOr(emp, "name", "_name")
          [] c = "termination_is_after_hire" -> termination_is_after_hire(emp)
          [] c = "termination_is_after_birthdate" ->
                termination_is_after_birthdate(emp)]

\* validate_employees(employees): the matrix, one row per employee, rows
\* labelled 0..n-1
validate_employees(employee_list) ==
    [i \in 1..Len(employee_list) |-> EmployeeValidationRow(employee_list[i])]

(***************************************************************************)
(* relations/Relations.py                                                  *)
(***************************************************************************)
\* the selection without the negation of the mask
validate_employee_ids_in_sales_members(edf, sdf) ==
    LET valid_ids == {edf.rows[i]["Employee ID"] : i \in 1..Len(edf.rows)}
    IN TakeRows(sdf, KeptPositions(
           [i \in 1..Len(sdf.rows) |->
               sdf.rows[i]["Seller Employee ID"] \in valid_ids],
           Len(sdf.rows)))

\* RelationsValidator(edf, sdf).validate_employee_ids_in_sales(): isin
\* takes a missing seller id for a member only when an employee id is
\* missing too
validate_employee_ids_in_sales(edf, sdf) ==
    LET valid_ids == {edf.rows[i]["Employee ID"] : i \in 1..Len(edf.rows)}
    IN TakeRows(sdf, KeptPositions(
           [i \in 1..Len(sdf.rows) |->
               ~(sdf.rows[i]["Seller Employee ID"] \in valid_ids)],
           Len(sdf.rows)))

\* pd.merge(employees_df, sales_df, left_on="Employee ID",
\* right_on="Seller Employee ID", how="left", indicator=True): for every
\* employee row in order, one row per sale with that seller id, marked
\* "both", or a single row marked "left_only"; the merge takes two missing
\* keys for equal. The result is labelled 0, 1, 2, ...
RECURSIVE MergeIndicator(_, _)
MergeIndicator(erows, srows) ==
    IF erows = <<>> THEN <<>>
    ELSE LET e == Head(erows)
             m == SelectSeq(srows, LAMBDA s :
                      s["Seller Employee ID"] = e["Employee ID"])
             part == IF m = <<>>
                     THEN << [row |-> e, _merge |-> "left_only"] >>
                     ELSE [i \in 1..Len(m) |-> [row |-> e, _merge |-> "both"]]
         IN part \o MergeIndicator(Tail(erows), srows)

\* validate_employee_without_sales(): the rows marked "left_only" under
\* their labels of the merge result, with the three employee columns
validate_employee_without_sales(edf, sdf) ==
    LET merged_df == MergeIndicator(edf.rows, sdf.rows)
        pos == KeptPositions(
                   [i \in 1..Len(merged_df) |->
                       merged_df[i]._merge = "left_only"], Len(merged_df))
        cols == {"Employee ID", "First Name", "Last Name"}
    IN [columns |-> cols, dtype |-> "object",
        index |-> [j \in 1..Len(pos) |-> pos[j] - 1],
        rows |-> [j \in 1..Len(pos) |->
                    [c \in cols |-> merged_df[pos[j]].row[c]]]]

\* the count of the rows marked "both"
validate_count_employees_with_sales(edf, sdf) ==
    LET merged_df == MergeIndicator(edf.rows, sdf.rows)
    IN PyNum(Len(SelectSeq(merged_df, LAMBDA r : r._merge = "both")))

\* validate_count_employees_without_sales()
validate_count_employees_without_sales(edf, sdf) ==
    LET merged_df == MergeIndicator(edf.rows, sdf.rows)
        left_only ==
            SelectSeq(merged_df, LAMBDA r : r._merge = "left_only")
    IN PyNum(Len(left_only))

\* Series.str.lower().str.strip() on one cell: NaN for a cell that holds no
\* string
StrLowerStrip(x) ==
    IF x.t = "str" THEN PyStr(Strip(Lower(x.v))) ELSE PyFloatNan

\* row.get(col, ""): the cell, or "" for a column the table does not have
RowGet(row, col) == IF col \in DOMAIN row THEN row[col] ELSE PyStr(<<>>)

\* str(value).lower().strip(): str() of a string is the string, of NaN the
\* text "nan"
LowerStripOfStr(x) == PyStr(Strip(Lower(x.v)))

\* the name test with first and last name looked up one by one
validate_employee_names_each(edf, sdf) ==
    LET firsts == {StrLowerStrip(edf.rows[i]["First Name"]) :
                      i \in 1..Len(edf.rows)}
        lasts == {StrLowerStrip(edf.rows[i]["Last Name"]) :
                      i \in 1..Len(edf.rows)}
    IN TakeRows(sdf, KeptPositions(
           [i \in 1..Len(sdf.rows) |->
               ~(/\ LowerStripOfStr(RowGet(sdf.rows[i], "Seller First Name"))
                        \in firsts
                 /\ LowerStripOfStr(RowGet(sdf.rows[i], "Seller Last Name"))
                        \in lasts)],
           Len(sdf.rows)))

\* the name test that also wants the seller id to be an employee id
validate_employee_names_of_known_ids(edf, sdf) ==
    LET valid_names ==
            {<<StrLowerStrip(edf.rows[i]["First Name"]),
               StrLowerStrip(edf.rows[i]["Last Name"])>> :
                i \in 1..Len(edf.rows)}
        valid_ids == {edf.rows[i]["Employee ID"] : i \in 1..Len(edf.rows)}
    IN TakeRows(sdf, KeptPositions(
           [i \in 1..Len(sdf.rows) |->
               ~(/\ <<LowerStripOfStr(RowGet(sdf.rows[i], "Seller First Name")),
                       LowerStripOfStr(RowGet(sdf.rows[i], "Seller Last Name"))>>
                        \in valid_names
                 /\ sdf.rows[i]["Seller Employee ID"] \in valid_ids)],
           Len(sdf.rows)))

\* validate_employee_names_in_sales(): a NaN in valid_names equals no text
validate_employee_names_in_sales(edf, sdf) ==
    LET valid_names ==
            {<<StrLowerStrip(edf.rows[i]["First Name"]),
               StrLowerStrip(edf.rows[i]["Last Name"])>> :
                i \in 1..Len(edf.rows)}
        is_valid_name(row) ==
            LET first == LowerStripOfStr(RowGet(row, "Seller First Name"))
                last == LowerStripOfStr(RowGet(row, "Seller Last Name"))
            IN <<first, last>> \in valid_names
    IN TakeRows(sdf, KeptPositions(
           [i \in 1..Len(sdf.rows) |-> ~is_valid_name(sdf.rows[i])],
           Len(sdf.rows)))

(***************************************************************************)
(* __main__.py                                                             *)
(***************************************************************************)
DateColumns == {"sale_date", "hire_date", "termination_date", "birthdate"}
IdColumns == {"sale_id", "seller_employee_id", "employee_id"}

\* the Python value to_dict(orient="records") gives for a cell
CellToPy(col, cell) ==
    IF col \in DateColumns
    THEN CASE cell.k = "ts" -> PyTimestamp(cell.d)
           [] cell.k = "nat" -> PyNaT
           [] cell.k = "nan" -> PyFloatNan
           [] OTHER -> PyDateStr(cell.d)
    ELSE IF col \in IdColumns
    THEN IF cell = NaN THEN PyFloatNan ELSE PyNum(cell)
    ELSE cell

\* df.to_dict(orient="records")
ToRecords(df) ==
    [i \in 1..Len(df.rows) |->
        [c \in df.columns |-> CellToPy(c, df.rows[i][c])]]

\* value == False, as DataFrame.eq(False) takes it: 0 equals False
EqFalse(x) == (x.t = "bool" /\ ~x.v) \/ (x.t = "number" /\ x.v = 0)

\* valid_mask = ~validations.eq(False).any(axis=1), labelled 0..n-1;
\* element i is the mask of label i - 1
valid_mask(validations) ==
    [i \in 1..Len(validations) |->
        ~\E c \in DOMAIN validations[i] : EqFalse(validations[i][c])]

\* every row label of df is a label of the mask
Alignable(df, mask) ==
    \A j \in 1..Len(df.index) : df.index[j] \in 0..(Len(mask) - 1)

\* df[mask] for a boolean Series mask that can be aligned: a row is taken
\* when the mask of its label is True
BoolSelect(df, mask) ==
    TakeRows(df, KeptPositions(
        [j \in 1..Len(df.index) |-> mask[df.index[j] + 1]], Len(df.index)))

\* the rows of a table with their labels
Items(df) ==
    [j \in 1..Len(df.rows) |-> [label |-> df.index[j], row |-> df.rows[j]]]

\* create_employee_instances(df_employees, validations): df[valid_mask]
\* raises IndexingError when a row label of df is no label of the mask;
\* Employee(...) takes every value as it is
create_employee_instances(df, validations) ==
    LET mask == valid_mask(validations)
    IN IF ~Alignable(df, mask) THEN Raised("IndexingError")
       ELSE Created(Items(BoolSelect(df, mask)))

\* the fields of the dataclass Sale
SaleFields ==
    {"_sale_id", "_product_id", "_seller_first_name", "_seller_last_name",
     "_seller_employee_id", "_buyer_name", "_sale_date", "_quantity",
     "_unit_price", "_total_price", "_sale_status"}

\* create_sale_instances(df_sales, validations): Sale(**row) raises
\* TypeError unless the keys of the row are the fields of Sale
create_sale_instances(df, validations) ==
    LET mask == valid_mask(validations)
    IN IF ~Alignable(df, mask) THEN Raised("IndexingError")
       ELSE LET kept == BoolSelect(df, mask)
            IN IF kept.rows # <<>> /\ kept.columns # SaleFields
               THEN Raised("TypeError")
               ELSE Created(Items(kept))

\* str.split(): the words of a text, blanks being the separators
RECURSIVE Words(_)
Words(s) ==
    LET t == LStrip(s, SpaceChars)
    IN IF t = <<>> THEN <<>>
       ELSE <<WordAt(t)>> \o Words(SubSeq(t, Len(WordAt(t)) + 1, Len(t)))

\* " ".join(words)
RECURSIVE JoinWords(_)
JoinWords(words) ==
    IF words = <<>> THEN <<>>
    ELSE IF Len(words) = 1 THEN words[1]
    ELSE words[1] \o <<" ">> \o JoinWords(Tail(words))

\* the mapping calculate_relations returns
Mapping(items) == [kind |-> "dict", items |-> items]

\* emp["First Name"] of one row: str(x).split()[0] if x else ""; [0] of
\* an empty list of words raises IndexError
FirstName(x) ==
    IF ~Truthy(x) THEN PyStr(<<>>)
    ELSE IF Words(x.v) = <<>> THEN NotADate
    ELSE PyStr(Words(x.v)[1])

\* emp["Last Name"] of one row
LastName(x) ==
    IF Truthy(x) /\ Len(Words(x.v)) > 1
    THEN PyStr(JoinWords(Tail(Words(x.v))))
    ELSE PyStr(<<>>)

\* emp of calculate_relations: the copy of the employee table with the
\* columns Employee ID, First Name and Last Name
RelationEmployees(df_e) ==
    LET ecols == df_e.columns \cup {"Employee ID", "First Name", "Last Name"}
    IN [df_e EXCEPT
          !.columns = ecols,
          !.rows = [i \in 1..Len(df_e.rows) |->
             [c \in ecols |->
                CASE c = "Employee ID" -> df_e.rows[i].employee_id
                  [] c = "First Name" -> FirstName(df_e.rows[i].name)
                  [] c = "Last Name" -> LastName(df_e.rows[i].name)
                  [] OTHER -> df_e.rows[i][c]]]]

\* sales of calculate_relations: the copy of the sales table with the
\* columns Seller Employee ID, Seller First Name and Seller Last Name
RelationSales(df_s) ==
    LET scols == df_s.columns \cup {"Seller Employee ID", "Seller First Name",
                                    "Seller Last Name"}
    IN [df_s EXCEPT
          !.columns = scols,
          !.rows = [i \in 1..Len(df_s.rows) |->
             [c \in scols |->
                CASE c = "Seller Employee ID" ->
                        df_s.rows[i].seller_employee_id
                  [] c = "Seller First Name" ->
                        RowGet(df_s.rows[i], "seller_first_name")
                  [] c = "Seller Last Name" ->
                        RowGet(df_s.rows[i], "seller_last_name")
                  [] OTHER -> df_s.rows[i][c]]]]

\* the exception that leaves calculate_relations before it counts, "" when
\* there is none
RelationsError(df_e, df_s) ==
    IF ~({"employee_id", "name"} \subseteq df_e.columns) THEN "KeyError"
    ELSE IF \E i \in 1..Len(df_e.rows) :
               FirstName(df_e.rows[i].name).t = "raised"
    THEN "IndexError"
    ELSE IF "seller_employee_id" \notin df_s.columns THEN "KeyError"
    ELSE ""

\* employees_with_sales taken from the rows of the join that have a sale
calculate_relations_per_sale(df_e, df_s) ==
    IF RelationsError(df_e, df_s) # "" THEN Raised(RelationsError(df_e, df_s))
    ELSE
    LET emp == RelationEmployees(df_e)
        sales_copy == RelationSales(df_s)
        emp_sin_ventas ==
            validate_count_employees_without_sales(emp, sales_copy).v
        invalid_ids == validate_employee_ids_in_sales(emp, sales_copy)
    IN Mapping(
        [employees_without_sales |-> emp_sin_ventas,
         employees_with_sales |->
             validate_count_employees_with_sales(emp, sales_copy).v,
         invalid_employee_ids_in_sales |-> Len(invalid_ids.rows),
         invalid_names_in_sales |->
             Len(validate_employee_names_in_sales(emp, sales_copy).rows),
         sales_with_valid_employee |-> Len(df_s.rows) - Len(invalid_ids.rows),
         sales_with_invalid_employee |-> Len(invalid_ids.rows),
         sales_reassigned |-> 0])

\* calculate_relations(df_employees_clean, df_sales_clean): the mapping, or
\* the exception that leaves the call; the two tables are copied first
calculate_relations(df_e, df_s) ==
    IF RelationsError(df_e, df_s) # "" THEN Raised(RelationsError(df_e, df_s))
    ELSE
    LET emp == RelationEmployees(df_e)
        sales_copy == RelationSales(df_s)
        emp_sin_ventas ==
            validate_count_employees_without_sales(emp, sales_copy).v
        invalid_ids == validate_employee_ids_in_sales(emp, sales_copy)
    IN Mapping(
        [employees_without_sales |-> emp_sin_ventas,
         employees_with_sales |-> Len(df_e.rows) - emp_sin_ventas,
         invalid_employee_ids_in_sales |-> Len(invalid_ids.rows),
         invalid_names_in_sales |->
             Len(validate_employee_names_in_sales(emp, sales_copy).rows),
         sales_with_valid_employee |-> Len(df_s.rows) - Len(invalid_ids.rows),
         sales_with_invalid_employee |-> Len(invalid_ids.rows),
         sales_reassigned |-> 0])

(***************************************************************************)
(* Input tables                                                            *)
(***************************************************************************)
SalesColumnSets ==
    {{"sale_id"} \cup cs : cs \in SUBSET required_sales_cols}
EmployeeColumnSets ==
    {{"name"} \cup cs : cs \in SUBSET required_employee_cols}

DateCellsOf(dtype) == IF dtype = "datetime64" THEN DatetimeCells ELSE ObjectCells

\* the rows a table can hold at position i
SaleRows(cols, i, dtype) ==
    {[c \in cols |-> IF c = "sale_id" THEN i
                     ELSE IF c = "seller_employee_id" THEN s
                     ELSE d] :
        s \in (IF "seller_employee_id" \in cols THEN SellerIds ELSE {0}),
        d \in (IF "sale_date" \in cols THEN DateCellsOf(dtype) ELSE {NaT})}

EmployeeRows(cols, i, dtype) ==
    {[c \in cols |-> IF c = "name" THEN i
                     ELSE IF c = "employee_id" THEN e
                     ELSE d] :
        e \in (IF "employee_id" \in cols THEN EmployeeIds ELSE {0}),
        d \in (IF "hire_date" \in cols THEN DateCellsOf(dtype) ELSE {NaT})}

RECURSIVE SaleRowSeqs(_, _, _)
SaleRowSeqs(cols, n, dtype) ==
    IF n = 0 THEN {<<>>}
    ELSE {Append(p, r) : p \in SaleRowSeqs(cols, n - 1, dtype),
                         r \in SaleRows(cols, n, dtype)}

RECURSIVE EmployeeRowSeqs(_, _, _)
EmployeeRowSeqs(cols, n, dtype) ==
    IF n = 0 THEN {<<>>}
    ELSE {Append(p, r) : p \in EmployeeRowSeqs(cols, n - 1, dtype),
                         r \in EmployeeRows(cols, n, dtype)}

\* the sequences of n rows of a set of rows
RECURSIVE RowSeqs(_, _)
RowSeqs(rowset, n) ==
    IF n = 0 THEN {<<>>}
    ELSE {Append(p, r) : p \in RowSeqs(rowset, n - 1), r \in rowset}

DefaultIndex(n) == [i \in 1..n |-> i - 1]

\* row labels of a sales table of n rows: the default 0..n-1 and the same
\* labels in reverse order
IndexChoices(n) == {DefaultIndex(n), [i \in 1..n |-> n - i]}

Table(cols, dtype, idx, rs) ==
    [columns |-> cols, dtype |-> dtype, index |-> idx, rows |-> rs]

AllSalesColumns == {"sale_id"} \cup required_sales_cols
AllEmployeeColumns == {"name"} \cup required_employee_cols

(***************************************************************************)
(* SpecSales: one call of sales_cleaner.clean_data on tables that have all *)
(* columns and datetime64 date columns                                     *)
(***************************************************************************)
\* the tasks main hands to its thread pools
TaskNames ==
    {"load_employees", "load_sales", "validate_employees", "validate_sales",
     "write_employees", "write_sales"}

\* a future: st is "none" before submit, then "queued", "running" while a
\* worker thread runs the task, "done" once its value is set, and "taken"
\* once main has returned from result()
NoTask == [st |-> "none", value |-> PyNone]

IdleRelations ==
    /\ employees_no_sales = NoTable
    /\ count_no_sales = PyNone
    /\ invalid_names = NoTable
    /\ relation_stats = PyNone
    /\ tasks = [t \in TaskNames |-> NoTask]

IdleRun ==
    /\ IdleRelations
    /\ record = PyNone
    /\ df_employees_clean = NoTable /\ df_sales_clean = NoTable
    /\ employee_validations = <<>> /\ sales_validations = <<>>
    /\ employees = NotCreated /\ sales = NotCreated

IdleFields ==
    /\ phone = PyNone /\ phone_out = PyNone
    /\ email = PyNone /\ email_out = PyNone /\ email_out2 = PyNone
    /\ IdleRun

InitSales ==
    /\ pc = "call"
    /\ \E n \in 0..MaxSales, m \in 0..MaxEmps :
         \E idx \in IndexChoices(n),
            srows \in SaleRowSeqs(AllSalesColumns, n, "datetime64"),
            erows \in EmployeeRowSeqs(AllEmployeeColumns, m, "datetime64") :
            /\ sales_df = Table(AllSalesColumns, "datetime64", idx, srows)
            /\ employees_df = Table(AllEmployeeColumns, "datetime64",
                                    DefaultIndex(m), erows)
    /\ sales_in = sales_df
    /\ employees_in = employees_df
    /\ result = NoTable /\ result2 = NoTable
    /\ IdleFields

\* df_sales_clean = clean_sales(df_sales, df_employees_clean)
CleanSales ==
    /\ pc = "call"
    /\ LET out == clean_data(sales_df, employees_df)
       IN /\ sales_df' = out[1]
          /\ employees_df' = out[2]
          /\ result' = out[1]
    /\ pc' = "returned"
    /\ UNCHANGED <<sales_in, employees_in, phoneVars, emailVars, runVars,
                   result2, relationVars, tasks>>

\* clean_data called a second time, on the table the first call returned
\* and the same employee table
CleanSalesAgain ==
    /\ pc = "returned"
    /\ LET out == clean_data(sales_df, employees_df)
       IN /\ sales_df' = out[1]
          /\ employees_df' = out[2]
          /\ result2' = out[1]
    /\ pc' = "recleaned"
    /\ UNCHANGED <<sales_in, employees_in, result, phoneVars, emailVars,
                   runVars, relationVars, tasks>>

NextSales == CleanSales

SpecSales == InitSales /\ [][NextSales]_vars

(***************************************************************************)
(* SpecTwice: clean_data called twice in a row, the second time on the     *)
(* table the first call returned.  Every employee identifier is in one row *)
(* of the employee table (the identifiers of SellerIds, in order), the     *)
(* sales table carries the default row labels or the reversed ones         *)
(***************************************************************************)
\* the employee tables of m rows whose identifiers are 1..m
UniqueEmployeeRowSeqs(m) ==
    {[i \in 1..m |-> [name |-> i, employee_id |-> i, hire_date |-> h[i]]] :
        h \in [1..m -> DatetimeCells]}

InitTwice ==
    /\ pc = "call"
    /\ \E n \in 0..MaxSales, m \in 0..Cardinality(SellerIds) :
         \E idx \in IndexChoices(n),
            srows \in SaleRowSeqs(AllSalesColumns, n, "datetime64"),
            erows \in UniqueEmployeeRowSeqs(m) :
            /\ sales_df = Table(AllSalesColumns, "datetime64", idx, srows)
            /\ employees_df = Table(AllEmployeeColumns, "datetime64",
                                    DefaultIndex(m), erows)
    /\ sales_in = sales_df
    /\ employees_in = employees_df
    /\ result = NoTable /\ result2 = NoTable
    /\ IdleFields

NextTwice == CleanSales \/ CleanSalesAgain

SpecTwice == InitTwice /\ [][NextTwice]_vars

(***************************************************************************)
(* SpecCoerce: one call of sales_cleaner.clean_data on tables as read from *)
(* CSV: date columns hold strings, any of the required columns may be      *)
(* missing, row labels are the default ones                                *)
(***************************************************************************)
InitCoerce ==
    /\ pc = "call"
    /\ \E scols \in SalesColumnSets, ecols \in EmployeeColumnSets :
         \E n \in 0..MaxSales, m \in 0..MaxEmps :
            \E srows \in SaleRowSeqs(scols, n, "object"),
               erows \in EmployeeRowSeqs(ecols, m, "object") :
               /\ sales_df = Table(scols, "object", DefaultIndex(n), srows)
               /\ employees_df = Table(ecols, "object", DefaultIndex(m), erows)
    /\ sales_in = sales_df
    /\ employees_in = employees_df
    /\ result = NoTable /\ result2 = NoTable
    /\ IdleFields

NextCoerce == CleanSales

SpecCoerce == InitCoerce /\ [][NextCoerce]_vars

(***************************************************************************)
(* Input texts                                                             *)
(***************************************************************************)
\* the texts of n characters of A
Texts(A, n) == [1..n -> A]

\* a run of n digits 7
Pad(n) == [i \in 1..n |-> "7"]

PhoneAlphabet == {"0", "1", "7", "-", "n", "a", "N"}

EmailAlphabet == {"n", "a", "N", "1", ".", "@", " "}
\* the fixed part of an email text: nothing, or the address n@a.na
EmailCores == {<<>>, <<"n", "@", "a", ".", "n", "a">>}

(***************************************************************************)
(* SpecPhone: one call of employees_cleaner.phone_number_cleaner           *)
(***************************************************************************)
InitPhone ==
    /\ pc = "call"
    /\ \/ phone \in {PyNone, PyFloatNan}
       \/ \E n \in 0..MaxFree, k \in 0..MaxPad :
            \E m \in 0..(MaxFree - n) :
               \E pre \in Texts(PhoneAlphabet, n), post \in Texts(PhoneAlphabet, m) :
                  phone = PyStr(pre \o Pad(k) \o post)
    /\ phone_out = PyNone
    /\ sales_df = NoTable /\ employees_df = NoTable
    /\ sales_in = NoTable /\ employees_in = NoTable
    /\ result = NoTable /\ result2 = NoTable
    /\ email = PyNone /\ email_out = PyNone /\ email_out2 = PyNone
    /\ IdleRun

\* df["phone"].apply(phone_number_cleaner), one cell
CleanPhone ==
    /\ pc = "call"
    /\ phone_out' = PyStr(phone_number_cleaner(phone))
    /\ pc' = "returned"
    /\ UNCHANGED <<phone, salesVars, emailVars, runVars, relationVars, tasks>>

NextPhone == CleanPhone

SpecPhone == InitPhone /\ [][NextPhone]_vars

(***************************************************************************)
(* SpecEmail: email_cleaner.clean, then clean again on its result          *)
(***************************************************************************)
InitEmail ==
    /\ pc = "call"
    /\ \/ email \in {PyNone, PyInt0, PyInt1, PyFloatNan}
       \/ \E n \in 0..MaxFree, core \in EmailCores :
            \E m \in 0..(MaxFree - n) :
               \E pre \in Texts(EmailAlphabet, n), post \in Texts(EmailAlphabet, m) :
                  email = PyStr(pre \o core \o post)
    /\ email_out = PyNone /\ email_out2 = PyNone
    /\ sales_df = NoTable /\ employees_df = NoTable
    /\ sales_in = NoTable /\ employees_in = NoTable
    /\ result = NoTable /\ result2 = NoTable
    /\ phone = PyNone /\ phone_out = PyNone
    /\ IdleRun

\* df["email"].apply(clean_email), one cell
CleanEmail ==
    /\ pc = "call"
    /\ email_out' = clean_email(email)
    /\ pc' = "cleaned"
    /\ UNCHANGED <<email, email_out2, salesVars, phoneVars, runVars,
                   relationVars, tasks>>

\* clean applied to the value clean returned
CleanEmailAgain ==
    /\ pc = "cleaned"
    /\ email_out2' = clean(email_out)
    /\ pc' = "recleaned"
    /\ UNCHANGED <<email, email_out, salesVars, phoneVars, runVars,
                   relationVars, tasks>>

NextEmail == CleanEmail \/ CleanEmailAgain

SpecEmail == InitEmail /\ [][NextEmail]_vars

(***************************************************************************)
(* SpecSaleRules: validate_sales on a list of one sale record              *)
(***************************************************************************)
\* str.upper() on the letters that have a capital in the alphabet
UpperChar(c) ==
    CASE c = "n" -> "N" [] c = "p" -> "P" [] c = "c" -> "C" [] OTHER -> c
Capitalized(s) == [i \in 1..Len(s) |-> IF i = 1 THEN UpperChar(s[i]) ELSE s[i]]
Capitals(s) == [i \in 1..Len(s) |-> UpperChar(s[i])]

\* the four status words and a word that is no status
StatusWords ==
    {PendingText, CompletedText, CancelledText, CanceledText,
     <<"c", "a", "n", "c", "e", "l">>}
Blanks == {<<>>, <<" ">>}
StatusTexts ==
    {<<>>} \cup
    UNION {{pre \o w \o post : pre \in Blanks, post \in Blanks} :
           w \in UNION {{x, Capitalized(x), Capitals(x)} : x \in StatusWords}}
StatusValues ==
    {PyStr(x) : x \in StatusTexts} \cup {Absent, PyNone, PyFloatNan, PyInt1}

QuantityValues == {Absent, PyNone, PyFloatNan, PyNum(0), PyNum(1), PyNum(2)}
UnitPriceValues ==
    {Absent, PyNone, PyFloatNan,
     PyNum(-5000), PyNum(0), PyNum(5000), PyNum(10000)}
TotalPriceValues ==
    {Absent, PyNone, PyFloatNan,
     PyNum(-5000), PyNum(0), PyNum(5000), PyNum(10000), PyNum(15000),
     PyNum(19990), PyNum(19991), PyNum(20000), PyNum(20009), PyNum(20010)}
SaleDateValues == {Absent, PyNaT, PyTimestamp(0), PyTimestamp(2)}

InitSaleRules ==
    /\ pc = "call"
    /\ \E q \in QuantityValues, u \in UnitPriceValues, t \in TotalPriceValues :
         \E st \in StatusValues, d \in SaleDateValues :
            record = MakeDict([sale_id |-> PyNum(1), quantity |-> q,
                               unit_price |-> u, total_price |-> t,
                               sale_status |-> st, sale_date |-> d])
    /\ df_employees_clean = NoTable /\ df_sales_clean = NoTable
    /\ employee_validations = <<>> /\ sales_validations = <<>>
    /\ employees = NotCreated /\ sales = NotCreated
    /\ IdleRelations
    /\ sales_df = NoTable /\ employees_df = NoTable
    /\ sales_in = NoTable /\ employees_in = NoTable
    /\ result = NoTable /\ result2 = NoTable
    /\ phone = PyNone /\ phone_out = PyNone
    /\ email = PyNone /\ email_out = PyNone /\ email_out2 = PyNone

\* validate_sales([record])
ValidateSaleRecord ==
    /\ pc = "call"
    /\ sales_validations' = validate_sales(<<record>>)
    /\ pc' = "validated"
    /\ UNCHANGED <<record, df_employees_clean, df_sales_clean,
                   employee_validations, employees, sales,
                   salesVars, phoneVars, emailVars, relationVars, tasks>>

NextSaleRules == ValidateSaleRecord

SpecSaleRules == InitSaleRules /\ [][NextSaleRules]_vars

(***************************************************************************)
(* SpecEmployeeRules: validate_employees on a list of one employee record  *)
(***************************************************************************)
\* hire and termination dates: no key, None, NaN, NaT, the empty text, a
\* text that is no date, and the days of Days as texts and as Timestamps
EmployeeDateValues ==
    {Absent, PyNone, PyFloatNan, PyNaT, PyStr(<<>>), PyDateStr(-1)}
    \cup {PyDateStr(d) : d \in Days} \cup {PyTimestamp(d) : d \in Days}

\* birthdates: 20 years and 17 years before 2021-01-01
BirthdateValues ==
    {Absent, PyFloatNan, PyNaT, PyTimestamp(-7300), PyTimestamp(-6205)}

InitEmployeeRules ==
    /\ pc = "call"
    /\ \E h \in EmployeeDateValues, t \in EmployeeDateValues :
         \E b \in BirthdateValues, e \in {PyNum(1), PyFloatNan} :
            record = MakeDict([employee_id |-> e, name |-> PyStr(<<"a">>),
                               hire_date |-> h, termination_date |-> t,
                               birthdate |-> b])
    /\ df_employees_clean = NoTable /\ df_sales_clean = NoTable
    /\ employee_validations = <<>> /\ sales_validations = <<>>
    /\ employees = NotCreated /\ sales = NotCreated
    /\ IdleRelations
    /\ sales_df = NoTable /\ employees_df = NoTable
    /\ sales_in = NoTable /\ employees_in = NoTable
    /\ result = NoTable /\ result2 = NoTable
    /\ phone = PyNone /\ phone_out = PyNone
    /\ email = PyNone /\ email_out = PyNone /\ email_out2 = PyNone

\* validate_employees([record])
ValidateEmployeeRecord ==
    /\ pc = "call"
    /\ employee_validations' = validate_employees(<<record>>)
    /\ pc' = "validated"
    /\ UNCHANGED <<record, df_employees_clean, df_sales_clean,
                   sales_validations, employees, sales,
                   salesVars, phoneVars, emailVars, relationVars, tasks>>

NextEmployeeRules == ValidateEmployeeRecord

SpecEmployeeRules == InitEmployeeRules /\ [][NextEmployeeRules]_vars

(***************************************************************************)
(* SpecRelations: one call of validate_employee_ids_in_sales, then of      *)
(* validate_employee_without_sales, then of                                *)
(* validate_count_employees_without_sales, on one validator                *)
(***************************************************************************)
\* the identifiers of tests/relations/test_relations.py, and a missing
\* seller identifier
RelationEmployeeIds == {1, 2, 3}
RelationSellerIds == {1, 2, 3, 4, NaN}

RelationEmployeeColumns == {"Employee ID", "First Name", "Last Name"}

\* every employee of these tables is called "a n"
RelationEmployeeRows ==
    {[c \in RelationEmployeeColumns |->
        CASE c = "Employee ID" -> e
          [] c = "First Name" -> PyStr(<<"a">>)
          [] c = "Last Name" -> PyStr(<<"n">>)] : e \in RelationEmployeeIds}
RelationSaleRows(i) ==
    {[c \in {"Sale ID", "Seller Employee ID"} |->
        IF c = "Sale ID" THEN 100 + i ELSE v] : v \in RelationSellerIds}

RECURSIVE RelationSaleRowSeqs(_)
RelationSaleRowSeqs(n) ==
    IF n = 0 THEN {<<>>}
    ELSE {Append(p, r) : p \in RelationSaleRowSeqs(n - 1),
                         r \in RelationSaleRows(n)}

InitRelations ==
    /\ pc = "call"
    /\ \E m \in 0..MaxEmps : \E erows \in RowSeqs(RelationEmployeeRows, m) :
          employees_df =
              Table(RelationEmployeeColumns, "object", DefaultIndex(m), erows)
    /\ \E n \in 0..MaxSales :
          \E idx \in IndexChoices(n), srows \in RelationSaleRowSeqs(n) :
             sales_df = Table({"Sale ID", "Seller Employee ID"}, "object",
                              idx, srows)
    /\ sales_in = sales_df
    /\ employees_in = employees_df
    /\ result = NoTable /\ result2 = NoTable
    /\ IdleFields

\* validator.validate_employee_ids_in_sales()
ValidateEmployeeIdsInSales ==
    /\ pc = "call"
    /\ result' = validate_employee_ids_in_sales(employees_df, sales_df)
    /\ pc' = "returned"
    /\ UNCHANGED <<sales_df, employees_df, sales_in, employees_in,
                   phoneVars, emailVars, runVars,
                   result2, relationVars, tasks>>

\* validator.validate_employee_without_sales()
ValidateEmployeeWithoutSales ==
    /\ pc = "returned"
    /\ employees_no_sales' =
          validate_employee_without_sales(employees_df, sales_df)
    /\ pc' = "listed"
    /\ UNCHANGED <<salesVars, phoneVars, emailVars, runVars,
                   count_no_sales, invalid_names, relation_stats, tasks>>

\* validator.validate_count_employees_without_sales()
ValidateCountEmployeesWithoutSales ==
    /\ pc = "listed"
    /\ count_no_sales' =
          validate_count_employees_without_sales(employees_df, sales_df)
    /\ pc' = "counted"
    /\ UNCHANGED <<salesVars, phoneVars, emailVars, runVars,
                   employees_no_sales, invalid_names, relation_stats,
                   tasks>>

NextRelations ==
    \/ ValidateEmployeeIdsInSales
    \/ ValidateEmployeeWithoutSales
    \/ ValidateCountEmployeesWithoutSales

SpecRelations == InitRelations /\ [][NextRelations]_vars

(***************************************************************************)
(* SpecNames: one call of validate_employee_ids_in_sales, then of          *)
(* validate_employee_names_in_sales, on a validator whose tables hold      *)
(* names                                                                   *)
(***************************************************************************)
\* employees "a n" and " N a " (a blank before and after)
NamedEmployeeRows ==
    {[c \in RelationEmployeeColumns |->
        CASE c = "Employee ID" -> e
          [] c = "First Name" -> nm[1]
          [] c = "Last Name" -> nm[2]] :
        e \in {1, 2},
        nm \in {<<PyStr(<<"a">>), PyStr(<<"n">>)>>,
                <<PyStr(<<" ", "N">>), PyStr(<<"a", " ">>)>>}}

NamedSalesColumnSets ==
    {{"Sale ID", "Seller Employee ID"},
     {"Sale ID", "Seller Employee ID", "Seller First Name",
      "Seller Last Name"}}

\* sellers "a N " (a blank at the end), "n a", "a a", "n n" and a seller
\* whose two name fields are missing; seller id 4 is the id of no employee
NamedSaleRows(cols, i) ==
    {[c \in cols |->
        CASE c = "Sale ID" -> 100 + i
          [] c = "Seller Employee ID" -> v
          [] c = "Seller First Name" -> nm[1]
          [] c = "Seller Last Name" -> nm[2]] :
        v \in {1, 4},
        nm \in (IF "Seller First Name" \in cols
                THEN {<<PyStr(<<"a">>), PyStr(<<"N", " ">>)>>,
                      <<PyStr(<<"n">>), PyStr(<<"a">>)>>,
                      <<PyStr(<<"a">>), PyStr(<<"a">>)>>,
                      <<PyStr(<<"n">>), PyStr(<<"n">>)>>,
                      <<PyFloatNan, PyFloatNan>>}
                ELSE {<<PyNone, PyNone>>})}

RECURSIVE NamedSaleRowSeqs(_, _)
NamedSaleRowSeqs(cols, n) ==
    IF n = 0 THEN {<<>>}
    ELSE {Append(p, r) : p \in NamedSaleRowSeqs(cols, n - 1),
                         r \in NamedSaleRows(cols, n)}

InitNames ==
    /\ pc = "call"
    /\ \E m \in 0..MaxEmps : \E erows \in RowSeqs(NamedEmployeeRows, m) :
          employees_df =
              Table(RelationEmployeeColumns, "object", DefaultIndex(m), erows)
    /\ \E cols \in NamedSalesColumnSets, n \in 0..MaxSales :
          \E idx \in IndexChoices(n), srows \in NamedSaleRowSeqs(cols, n) :
             sales_df = Table(cols, "object", idx, srows)
    /\ sales_in = sales_df
    /\ employees_in = employees_df
    /\ result = NoTable /\ result2 = NoTable
    /\ IdleFields

\* validator.validate_employee_names_in_sales()
ValidateEmployeeNamesInSales ==
    /\ pc = "returned"
    /\ invalid_names' = validate_employee_names_in_sales(employees_df, sales_df)
    /\ pc' = "named"
    /\ UNCHANGED <<salesVars, phoneVars, emailVars, runVars,
                   employees_no_sales, count_no_sales, relation_stats,
                   tasks>>

NextNames ==
    \/ ValidateEmployeeIdsInSales
    \/ ValidateEmployeeNamesInSales

SpecNames == InitNames /\ [][NextNames]_vars

(***************************************************************************)
(* SpecRun: main from the loaded tables to the created instances. The      *)
(* employee table is as read from CSV, with identifiers and names that may *)
(* be missing; the sales table has at most one sale, dated 2022-01-02 and  *)
(* sold by employee 1                                                      *)
(***************************************************************************)
RunEmployeeColumns == {"employee_id", "name", "hire_date", "termination_date"}

RunEmployeeRows ==
    {[c \in RunEmployeeColumns |->
        CASE c = "employee_id" -> e
          [] c = "name" -> nm
          [] c = "hire_date" -> h
          [] c = "termination_date" -> t] :
        e \in {1, NaN}, nm \in {PyStr(<<"a">>), PyFloatNan},
        h \in {Str(0), Str(2), BadStr}, t \in {Str(1), NaNCell}}

RunSalesColumns ==
    {"sale_id", "seller_employee_id", "sale_date", "quantity", "unit_price",
     "total_price", "sale_status"}

\* a completed sale of 2 at 10.0 for 20.0, and a pending sale without
\* prices
RunSaleRows(cols) ==
    {[c \in cols |->
        CASE c = "sale_id" -> 1
          [] c = "seller_employee_id" -> 1
          [] c = "sale_date" -> d
          [] c = "quantity" -> PyNum(2)
          [] c = "unit_price" -> u
          [] c = "total_price" -> IF u.t = "number" THEN PyNum(20000) ELSE u
          [] c = "sale_status" ->
                IF u.t = "number" THEN PyStr(Capitalized(CompletedText))
                ELSE PyStr(Capitalized(PendingText))] :
        u \in {PyNum(10000), PyFloatNan}, d \in {Str(Today), Str(Today + 1)}}

InitRun ==
    /\ pc = "loaded"
    /\ \E m \in 0..MaxEmps : \E erows \in RowSeqs(RunEmployeeRows, m) :
          employees_df =
              Table(RunEmployeeColumns, "object", DefaultIndex(m), erows)
    /\ \E scols \in {RunSalesColumns, RunSalesColumns \ {"sale_date"}} :
          \E n \in 0..1 : \E srows \in RowSeqs(RunSaleRows(scols), n) :
             sales_df = Table(scols, "object", DefaultIndex(n), srows)
    /\ sales_in = sales_df
    /\ employees_in = employees_df
    /\ result = NoTable /\ result2 = NoTable
    /\ IdleFields

\* df_employees_clean = clean_employees(df_employees)
CleanEmployees ==
    /\ pc = "loaded"
    /\ df_employees_clean' = clean_employees(employees_df)
    /\ pc' = "employees_cleaned"
    /\ UNCHANGED <<record, df_sales_clean, employee_validations,
                   sales_validations, employees, sales,
                   salesVars, phoneVars, emailVars, relationVars, tasks>>

\* df_sales_clean = clean_sales(df_sales, df_employees_clean): the sales
\* table object and the cleaned employee table object are changed in place
CleanSalesOfRun ==
    /\ pc = "employees_cleaned"
    /\ LET out == clean_data(sales_df, df_employees_clean)
       IN /\ sales_df' = out[1]
          /\ df_sales_clean' = out[1]
          /\ df_employees_clean' = out[2]
    /\ pc' = "cleaned"
    /\ UNCHANGED <<record, employee_validations, sales_validations,
                   employees, sales, employees_df, sales_in, employees_in,
                   result, phoneVars, emailVars,
                   result2, relationVars, tasks>>

\* the two validations, each awaited before the next statement
Validate ==
    /\ pc = "cleaned"
    /\ employee_validations' = validate_employees(ToRecords(df_employees_clean))
    /\ sales_validations' = validate_sales(ToRecords(df_sales_clean))
    /\ pc' = "validated"
    /\ UNCHANGED <<record, df_employees_clean, df_sales_clean, employees,
                   sales, salesVars, phoneVars, emailVars,
                   relationVars, tasks>>

\* employees = create_employee_instances(...); an exception leaves main
CreateEmployees ==
    /\ pc = "validated"
    /\ employees' =
          create_employee_instances(df_employees_clean, employee_validations)
    /\ pc' = IF employees'.kind = "list" THEN "employees_created" ELSE "halted"
    /\ UNCHANGED <<record, df_employees_clean, df_sales_clean,
                   employee_validations, sales_validations, sales,
                   salesVars, phoneVars, emailVars, relationVars, tasks>>

\* sales = create_sale_instances(...)
CreateSales ==
    /\ pc = "employees_created"
    /\ sales' = create_sale_instances(df_sales_clean, sales_validations)
    /\ pc' = IF sales'.kind = "list" THEN "created" ELSE "halted"
    /\ UNCHANGED <<record, df_employees_clean, df_sales_clean,
                   employee_validations, sales_validations, employees,
                   salesVars, phoneVars, emailVars, relationVars, tasks>>

\* names: missing, "a", "m n", " i", "N", a blank, "e" and "O"
NameValues ==
    {PyFloatNan, PyStr(<<"a">>), PyStr(<<"m", " ", "n">>), PyStr(<<" ", "i">>),
     PyStr(<<"N">>), PyStr(<<" ">>), PyStr(<<"e">>), PyStr(<<"O">>)}
GenderValues == {Male, Female, PyFloatNan}

CleanerColumnSets ==
    {req \cup gen \cup ext :
        req \in {{"employee_id"}, {"name"}, {"employee_id", "name"}},
        gen \in {{}, {"gender"}},
        ext \in {{}, {"phone", "email", "age"}}}

CleanerRows(cols) ==
    {[c \in cols |->
        CASE c = "employee_id" -> e
          [] c = "name" -> nm
          [] c = "gender" -> g
          [] c = "phone" -> PyStr(<<"1", "-", "7">>)
          [] c = "email" -> PyStr(<<"N", "@", "a", ".", "n", "a">>)
          [] c = "age" -> PyNum(30)] :
        e \in (IF "employee_id" \in cols THEN {1, NaN} ELSE {0}),
        nm \in (IF "name" \in cols THEN NameValues ELSE {PyNone}),
        g \in (IF "gender" \in cols THEN GenderValues ELSE {PyNone})}

InitEmployees ==
    /\ pc = "loaded"
    /\ \E cols \in CleanerColumnSets : \E m \in 0..MaxEmps :
          \E erows \in RowSeqs(CleanerRows(cols), m) :
             employees_df = Table(cols, "object", DefaultIndex(m), erows)
    /\ sales_df = NoTable
    /\ sales_in = sales_df
    /\ employees_in = employees_df
    /\ result = NoTable /\ result2 = NoTable
    /\ IdleFields

NextEmployees == CleanEmployees

SpecEmployees == InitEmployees /\ [][NextEmployees]_vars

NextRun ==
    \/ CleanEmployees
    \/ CleanSalesOfRun
    \/ Validate
    \/ CreateEmployees
    \/ CreateSales

SpecRun == InitRun /\ [][NextRun]_vars

(***************************************************************************)
(* SpecPool: main from its start to the saved CSV files, with the tasks it *)
(* hands to its thread pools of two workers. employees_in and sales_in are *)
(* the tables the two source files hold.                                   *)
(***************************************************************************)
max_workers == 2

InitPool ==
    /\ pc = "start"
    /\ \E m \in 0..MaxEmps : \E erows \in RowSeqs(RunEmployeeRows, m) :
          employees_in =
              Table(RunEmployeeColumns, "object", DefaultIndex(m), erows)
    /\ \E scols \in {RunSalesColumns, RunSalesColumns \ {"sale_date"}} :
          \E n \in 0..1 : \E srows \in RowSeqs(RunSaleRows(scols), n) :
             sales_in = Table(scols, "object", DefaultIndex(n), srows)
    /\ sales_df = NoTable
    /\ employees_df = NoTable
    /\ result = NoTable /\ result2 = NoTable
    /\ IdleFields

\* executor.submit(task): the future is queued and main goes on
Submit(t, from, to) ==
    /\ pc = from
    /\ tasks[t].st = "none"
    /\ tasks' = [tasks EXCEPT ![t].st = "queued"]
    /\ pc' = to

\* future.result(): main waits until the task is done and takes its value
TakeResult(t, from, to) ==
    /\ pc = from
    /\ tasks[t].st = "done"
    /\ tasks' = [tasks EXCEPT ![t].st = "taken"]
    /\ pc' = to

\* a worker thread takes a queued task; the pool has max_workers threads
StartTask ==
    /\ \E t \in TaskNames :
          /\ tasks[t].st = "queued"
          /\ Cardinality({u \in TaskNames : tasks[u].st = "running"})
                < max_workers
          /\ tasks' = [tasks EXCEPT ![t].st = "running"]
    /\ UNCHANGED <<pc, salesVars, phoneVars, emailVars, runVars, relationVars>>

\* what a task computes
TaskValue(t) ==
    CASE t = "load_employees" -> employees_in
      [] t = "load_sales" -> sales_in
      [] t = "validate_employees" ->
            validate_employees(ToRecords(df_employees_clean))
      [] t = "validate_sales" -> validate_sales(ToRecords(df_sales_clean))
      [] t = "write_employees" -> df_employees_clean
      [] t = "write_sales" -> df_sales_clean

\* a worker thread finishes its task and sets the future
FinishTask ==
    /\ \E t \in TaskNames :
          /\ tasks[t].st = "running"
          /\ tasks' = [tasks EXCEPT ![t] = [st |-> "done",
                                            value |-> TaskValue(t)]]
    /\ UNCHANGED <<pc, salesVars, phoneVars, emailVars, runVars, relationVars>>

\* df_employees = executor.submit(lambda: ...load_data()).result()
SubmitLoadEmployees ==
    /\ Submit("load_employees", "start", "await_load_employees")
    /\ UNCHANGED <<salesVars, phoneVars, emailVars, runVars, relationVars>>

AwaitLoadEmployees ==
    /\ TakeResult("load_employees", "await_load_employees", "submit_load_sales")
    /\ employees_df' = tasks["load_employees"].value
    /\ UNCHANGED <<sales_df, sales_in, employees_in, result, result2,
                   phoneVars, emailVars, runVars, relationVars>>

\* df_sales = executor.submit(lambda: ...load_data()).result()
SubmitLoadSales ==
    /\ Submit("load_sales", "submit_load_sales", "await_load_sales")
    /\ UNCHANGED <<salesVars, phoneVars, emailVars, runVars, relationVars>>

AwaitLoadSales ==
    /\ TakeResult("load_sales", "await_load_sales", "loaded")
    /\ sales_df' = tasks["load_sales"].value
    /\ UNCHANGED <<employees_df, sales_in, employees_in, result, result2,
                   phoneVars, emailVars, runVars, relationVars>>

\* employee_validations = executor.submit(validate_employees, ...).result()
SubmitValidateEmployees ==
    /\ Submit("validate_employees", "cleaned", "await_validate_employees")
    /\ UNCHANGED <<salesVars, phoneVars, emailVars, runVars, relationVars>>

AwaitValidateEmployees ==
    /\ TakeResult("validate_employees", "await_validate_employees",
                  "submit_validate_sales")
    /\ employee_validations' = tasks["validate_employees"].value
    /\ UNCHANGED <<record, df_employees_clean, df_sales_clean,
                   sales_validations, employees, sales,
                   salesVars, phoneVars, emailVars, relationVars>>

\* sales_validations = executor.submit(validate_sales, ...).result()
SubmitValidateSales ==
    /\ Submit("validate_sales", "submit_validate_sales",
              "await_validate_sales")
    /\ UNCHANGED <<salesVars, phoneVars, emailVars, runVars, relationVars>>

AwaitValidateSales ==
    /\ TakeResult("validate_sales", "await_validate_sales", "validated")
    /\ sales_validations' = tasks["validate_sales"].value
    /\ UNCHANGED <<record, df_employees_clean, df_sales_clean,
                   employee_validations, employees, sales,
                   salesVars, phoneVars, emailVars, relationVars>>

\* relation_stats = calculate_relations(df_employees_clean, df_sales_clean)
CalculateRelations ==
    /\ pc = "created"
    /\ relation_stats' = calculate_relations(df_employees_clean, df_sales_clean)
    /\ pc' = IF relation_stats'.kind = "dict" THEN "related" ELSE "halted"
    /\ UNCHANGED <<salesVars, phoneVars, emailVars, runVars,
                   employees_no_sales, count_no_sales, invalid_names, tasks>>

\* save_csv_reports: the two submits, none of them waited for
SubmitWriteEmployees ==
    /\ Submit("write_employees", "related", "submit_write_sales")
    /\ UNCHANGED <<salesVars, phoneVars, emailVars, runVars, relationVars>>

SubmitWriteSales ==
    /\ Submit("write_sales", "submit_write_sales", "exit_save_pool")
    /\ UNCHANGED <<salesVars, phoneVars, emailVars, runVars, relationVars>>

\* the end of the with block of save_csv_reports: shutdown(wait=True)
ExitSavePool ==
    /\ pc = "exit_save_pool"
    /\ \A t \in {"write_employees", "write_sales"} : tasks[t].st = "done"
    /\ pc' = "saved"
    /\ UNCHANGED <<salesVars, phoneVars, emailVars, runVars, relationVars,
                   tasks>>

NextPool ==
    \/ SubmitLoadEmployees \/ AwaitLoadEmployees
    \/ SubmitLoadSales \/ AwaitLoadSales
    \/ CleanEmployees
    \/ CleanSalesOfRun
    \/ SubmitValidateEmployees \/ AwaitValidateEmployees
    \/ SubmitValidateSales \/ AwaitValidateSales
    \/ CreateEmployees
    \/ CreateSales
    \/ CalculateRelations
    \/ SubmitWriteEmployees
    \/ SubmitWriteSales
    \/ ExitSavePool
    \/ StartTask
    \/ FinishTask

SpecPool == InitPool /\ [][NextPool]_vars

(***************************************************************************)
(* SpecStats: main from the loaded tables to the mapping of                *)
(* calculate_relations, on employee tables with two-word and blank names   *)
(* and sales tables with and without the seller name columns               *)
(***************************************************************************)
StatsEmployeeRows ==
    {[c \in RunEmployeeColumns |->
        CASE c = "employee_id" -> e
          [] c = "name" -> nm
          [] c = "hire_date" -> h
          [] c = "termination_date" -> NaNCell] :
        e \in EmployeeIds,
        nm \in {PyStr(<<"a", " ", "n">>), PyStr(<<" ">>)},
        h \in {Str(0), Str(2)}}

SellerNameColumns == {"seller_first_name", "seller_last_name"}

StatsSaleRows(cols) ==
    {[c \in cols |->
        CASE c = "sale_id" -> 1
          [] c = "seller_employee_id" -> s
          [] c = "sale_date" -> Str(Today)
          [] c = "quantity" -> PyNum(2)
          [] c = "unit_price" -> PyNum(10000)
          [] c = "total_price" -> PyNum(20000)
          [] c = "sale_status" -> PyStr(Capitalized(CompletedText))
          [] c = "seller_first_name" -> nm[1]
          [] c = "seller_last_name" -> nm[2]] :
        s \in SellerIds,
        nm \in (IF SellerNameColumns \subseteq cols
                THEN {<<PyStr(<<"a">>), PyStr(<<"n">>)>>,
                      <<PyStr(<<"e">>), PyStr(<<>>)>>}
                ELSE {<<PyNone, PyNone>>})}

InitStats ==
    /\ pc = "loaded"
    /\ \E m \in 0..MaxEmps : \E erows \in RowSeqs(StatsEmployeeRows, m) :
          employees_df =
              Table(RunEmployeeColumns, "object", DefaultIndex(m), erows)
    /\ \E scols \in {RunSalesColumns, RunSalesColumns \cup SellerNameColumns} :
          \E n \in 0..MaxSales : \E srows \in RowSeqs(StatsSaleRows(scols), n) :
             sales_df = Table(scols, "object", DefaultIndex(n), srows)
    /\ sales_in = sales_df
    /\ employees_in = employees_df
    /\ result = NoTable /\ result2 = NoTable
    /\ IdleFields

NextStats ==
    \/ CleanEmployees
    \/ CleanSalesOfRun
    \/ Validate
    \/ CreateEmployees
    \/ CreateSales
    \/ CalculateRelations

SpecStats == InitStats /\ [][NextStats]_vars

(***************************************************************************)
(* Properties of reconciliation (SpecSales)                                *)
(***************************************************************************)
Returned == pc = "returned"

\* both tables had the columns reconciliation requires
Reconciled ==
    /\ Returned
    /\ {"sale_date", "seller_employee_id"} \subseteq sales_in.columns
    /\ {"employee_id", "hire_date"} \subseteq employees_in.columns

InSales == 1..Len(sales_in.rows)
InEmps == 1..Len(employees_in.rows)

\* the day a date cell denotes, -1 when it denotes none
DayOf(c) == IF c.k = "nat" THEN -1 ELSE c.d
SaleDay(j) == DayOf(sales_in.rows[j].sale_date)
HireDay(k) == DayOf(employees_in.rows[k].hire_date)
SellerIn(j) == sales_in.rows[j].seller_employee_id
SellerOut(j) == result.rows[j].seller_employee_id

\* employee row k was hired on or before the day of sale j
HiredBy(k, j) == HireDay(k) >= 0 /\ SaleDay(j) >= 0 /\ HireDay(k) <= SaleDay(j)
\* employee row k is the seller of sale j
SellerRow(k, j) == employees_in.rows[k].employee_id = SellerIn(j)
\* sale j is dated before the hire date of an employee row of its seller
InvalidSale(j) ==
    \E k \in InEmps : /\ SellerRow(k, j)
                      /\ HireDay(k) >= 0 /\ SaleDay(j) >= 0
                      /\ SaleDay(j) < HireDay(k)

\* C1: a sale whose current seller is in the employee table with
\* hire_date <= sale_date keeps its seller_employee_id.
C1_ValidSaleKept ==
    Reconciled =>
        \A j \in InSales :
            (\E k \in InEmps : SellerRow(k, j) /\ HiredBy(k, j))
                => SellerOut(j) = SellerIn(j)

\* C2: a changed seller_employee_id is the id of the first employee, in
\* employee table order, with hire_date <= the sale's sale_date.
C2_FirstQualifying ==
    Reconciled =>
        \A j \in InSales :
            SellerOut(j) # SellerIn(j) =>
                \E k \in InEmps :
                    /\ employees_in.rows[k].employee_id = SellerOut(j)
                    /\ HiredBy(k, j)
                    /\ \A k2 \in 1..(k - 1) : ~HiredBy(k2, j)

\* C3: an invalid sale for which no employee has hire_date <= sale_date
\* keeps its seller_employee_id.
C3_NoQualifierKept ==
    Reconciled =>
        \A j \in InSales :
            (InvalidSale(j) /\ \A k \in InEmps : ~HiredBy(k, j))
                => SellerOut(j) = SellerIn(j)

\* sale j has no seller row, no sale day, or only seller rows without a
\* hire day
Unmatched(j) ==
    \/ \A k \in InEmps : ~SellerRow(k, j)
    \/ SaleDay(j) < 0
    \/ \A k \in InEmps : SellerRow(k, j) => HireDay(k) < 0

\* C4: a sale with an unknown seller, a missing sale_date or a missing
\* seller hire_date is not flagged invalid and keeps its seller_employee_id.
C4_UnmatchedKept ==
    Reconciled =>
        \A j \in InSales :
            Unmatched(j) => (~InvalidSale(j) /\ SellerOut(j) = SellerIn(j))

\* the fixture: employees 1 (hired day 0) and 2 (hired day 2), two sales of
\* day 1 attributed to sellers 1 and 2
IsFixture ==
    /\ Reconciled
    /\ sales_in.index = <<0, 1>>
    /\ Len(sales_in.rows) = 2 /\ Len(employees_in.rows) = 2
    /\ SellerIn(1) = 1 /\ SellerIn(2) = 2
    /\ SaleDay(1) = 1 /\ SaleDay(2) = 1
    /\ employees_in.rows[1].employee_id = 1 /\ HireDay(1) = 0
    /\ employees_in.rows[2].employee_id = 2 /\ HireDay(2) = 2

\* C5: in the fixture the first sale stays with employee 1 and the second
\* sale is reassigned to employee 1.
C5_Fixture ==
    IsFixture => (Len(result.rows) = 2 /\ SellerOut(1) = 1 /\ SellerOut(2) = 1)

C5_Witness == IsFixture /\ SellerIn(2) # SellerOut(2)

\* C6 as stated: every column other than seller_employee_id, sale_date
\* included, has the same value in every sale row after the call.
C6_OnlySellerChanges ==
    Returned =>
        \A j \in InSales :
            \A c \in sales_in.columns \ {"seller_employee_id"} :
                result.rows[j][c] = sales_in.rows[j][c]

\* pd.to_datetime(errors="coerce") as the reading of a cell: a Timestamp of
\* the day the cell denotes, NaT when it denotes none
Coerced(c) == IF DayOf(c) >= 0 THEN [k |-> "ts", d |-> DayOf(c)]
              ELSE [k |-> "nat", d |-> -1]

\* C6 amended: every column other than seller_employee_id and sale_date has
\* the same value in every sale row after the call; sale_date holds the
\* datetime coercion of its former value when reconciliation ran, and its
\* former value when it was skipped.
C6_OnlySellerAndDateCoercion ==
    Returned =>
        /\ Len(result.rows) >= Len(sales_in.rows)
        /\ \A j \in InSales :
            /\ result.index[j] = sales_in.index[j]
            /\ \A c \in sales_in.columns \ {"seller_employee_id", "sale_date"} :
                  result.rows[j][c] = sales_in.rows[j][c]
            /\ "sale_date" \in sales_in.columns =>
                  result.rows[j].sale_date =
                      IF Reconciled THEN Coerced(sales_in.rows[j].sale_date)
                      ELSE sales_in.rows[j].sale_date

\* a call that reassigned a sale of a table whose dates were strings
C6_Witness ==
    /\ Reconciled
    /\ sales_in.dtype = "object"
    /\ \E j \in InSales :
          /\ SellerOut(j) # SellerIn(j)
          /\ result.rows[j].sale_date # sales_in.rows[j].sale_date
          /\ result.rows[j].sale_id = sales_in.rows[j].sale_id

\* C7: with a required column missing on either side the call returns the
\* sales table with every cell unchanged.
C7_MissingColumnsPassThrough ==
    (Returned /\ ~Reconciled) =>
        /\ result = sales_in
        /\ sales_df = sales_in
        /\ employees_df = employees_in

\* a skipped call on tables whose date columns hold strings that coercion
\* and reassignment would have changed
C7_Witness ==
    /\ Returned /\ ~Reconciled
    /\ "sale_date" \in sales_in.columns
    /\ sales_in.dtype = "object"
    /\ \E j \in InSales : DayOf(sales_in.rows[j].sale_date) < 0
    /\ "hire_date" \in employees_in.columns
    /\ employees_in.dtype = "object"
    /\ Len(employees_in.rows) > 0
    /\ result = sales_in

\* the positions of the rows of the join that are flagged invalid
InvalidPositions ==
    LET merged == Merge(sales_in.rows, employees_in.rows)
    IN {i \in 1..Len(merged) :
           DateLt(merged[i].sale_date, merged[i].hire_date)}

\* the orders in which the flagged rows can be taken
Orders ==
    {o \in [1..Cardinality(InvalidPositions) -> InvalidPositions] :
        \A a, b \in DOMAIN o : o[a] = o[b] => a = b}

\* the identifier of the first employee row hired by the day of sale j
FirstQualifier(j) ==
    LET k == CHOOSE k \in InEmps :
                 HiredBy(k, j) /\ \A k2 \in 1..(k - 1) : ~HiredBy(k2, j)
    IN employees_in.rows[k].employee_id

\* C24: the outcome for each sale is decided by its own sale_date and the
\* original employee table alone: an invalid sale ends with the first
\* employee hired by its date when there is one, any other sale ends with
\* the seller it had, and taking the invalid sales in any order gives the
\* same final table.
C24_OrderIndependent ==
    Reconciled =>
        /\ \A j \in InSales :
              SellerOut(j) =
                  IF InvalidSale(j) /\ \E k \in InEmps : HiredBy(k, j)
                  THEN FirstQualifier(j)
                  ELSE SellerIn(j)
        /\ \A o \in Orders :
              ReassignInOrder(sales_in, Merge(sales_in.rows, employees_in.rows),
                              employees_in.rows, o) = result

\* C26: after clean_data every cell of the caller's employee table,
\* hire_date included, is what it was before the call.
C26_EmployeesUntouched ==
    Returned => employees_df = employees_in

\* C27: clean_data returns as many rows as it was given, under the row
\* labels it was given, and a sale whose seller_employee_id was written
\* is a sale that was flagged invalid.
C27_WritesGoToFlaggedSale ==
    Reconciled =>
        /\ Len(result.rows) = Len(sales_in.rows)
        /\ result.index = sales_in.index
        /\ \A j \in InSales :
              SellerOut(j) # SellerIn(j) => InvalidSale(j)

\* no employee identifier is in two rows of the employee table
UniqueEmployeeIds ==
    \A k1, k2 \in InEmps :
        employees_in.rows[k1].employee_id = employees_in.rows[k2].employee_id
            => k1 = k2

\* C28: with unique employee identifiers, clean_data applied to its own
\* result and the same employee table returns that result again.
C28_Idempotent ==
    (pc = "recleaned" /\ UniqueEmployeeIds) => result2 = result

(***************************************************************************)
(* Properties of the phone cleaner (SpecPhone)                             *)
(***************************************************************************)
IsDigitChar(c) == c \in {"0", "1", "7"}

\* C8: the cleaned phone is a string of exactly 10 digits.
C8_TenDigits ==
    pc = "returned" =>
        /\ phone_out.t = "str"
        /\ Len(phone_out.v) = 10
        /\ \A i \in 1..Len(phone_out.v) : IsDigitChar(phone_out.v[i])

\* the digits of a text, in order
RECURSIVE DigitsIn(_)
DigitsIn(s) ==
    IF s = <<>> THEN <<>>
    ELSE IF IsDigitChar(Head(s)) THEN <<Head(s)>> \o DigitsIn(Tail(s))
    ELSE DigitsIn(Tail(s))

\* a digit string without its leading zeros
RECURSIVE NoLeadingZeros(_)
NoLeadingZeros(s) ==
    IF s # <<>> /\ Head(s) = "0" THEN NoLeadingZeros(Tail(s)) ELSE s

\* the digit string d of the input
DigitString(x) ==
    NoLeadingZeros(DigitsIn(IF x.t = "NoneType" THEN <<>> ELSE x.v))

TenZeros == <<"0", "0", "0", "0", "0", "0", "0", "0", "0", "0">>

C10_Idempotent ==
    /\ pc = "recleaned" => email_out2 = email_out
    /\ (pc # "call" /\ email = [t |-> "str", v |-> <<"n", "a", "n">>])
          => email_out = email

\* a text with blanks and capitals cleaned to a valid address, cleaned again
C10_Witness ==
    /\ pc = "recleaned"
    /\ email.t = "str"
    /\ email.v # email_out.v
    /\ email_out.v # <<"n", "a", "n">>
    /\ \E i \in 1..Len(email.v) : email.v[i] = "N"
    /\ email.v[1] = " "

\* the text without its blanks at both ends, in lower case
RECURSIVE TrimmedLower(_)
TrimmedLower(s) ==
    IF s = <<>> THEN <<>>
    ELSE IF Head(s) = " " THEN TrimmedLower(Tail(s))
    ELSE IF s[Len(s)] = " " THEN TrimmedLower(SubSeq(s, 1, Len(s) - 1))
    ELSE [i \in 1..Len(s) |-> IF s[i] = "N" THEN "n" ELSE s[i]]

\* the positions of character c in text s
Positions(s, c) == {i \in 1..Len(s) : s[i] = c}

\* local@domain.tld: one at sign after a local part of letters, digits and
\* . _ % + -, then a domain of letters, digits, dots and hyphens, then the
\* last dot of the text followed by two letters or more
IsAddress(s) ==
    /\ Cardinality(Positions(s, "@")) = 1
    /\ LET at == CHOOSE i \in Positions(s, "@") : TRUE
           dots == {j \in Positions(s, ".") : j > at}
       IN /\ at > 1
          /\ \A p \in 1..(at - 1) :
                s[p] \in {"n", "a", "N", "0", "1", "7", ".", "_", "%", "+", "-"}
          /\ dots # {}
          /\ LET dot == CHOOSE j \in dots : \A k \in dots : k <= j
             IN /\ dot > at + 1
                /\ \A p \in (at + 1)..(dot - 1) :
                      s[p] \in {"n", "a", "N", "0", "1", "7", ".", "-"}
                /\ Len(s) >= dot + 2
                /\ \A p \in (dot + 1)..Len(s) : s[p] \in {"n", "a", "N"}

\* C11: clean returns a string that is either "nan" or the trimmed,
\* lowercased input, the latter only when it matches local@domain.tld;
\* empty, missing and non-string inputs give "nan".
C11_NanOrAddress ==
    pc # "call" =>
        /\ email_out.t = "str"
        /\ \/ email_out.v = <<"n", "a", "n">>
           \/ /\ email.t = "str"
              /\ email_out.v = TrimmedLower(email.v)
              /\ IsAddress(email_out.v)
        /\ (email.t # "str" \/ email.v = <<>>) => email_out.v = <<"n", "a", "n">>

\* an address with a capital and a blank before it, and a second dot in its
\* domain, returned trimmed and in lower case
C11_Witness ==
    /\ pc = "cleaned"
    /\ email.t = "str"
    /\ Len(email.v) = 9
    /\ email.v[1] = " "
    /\ email.v[2] = "N"
    /\ email_out.v = <<"n", "@", "a", ".", "n", "a", ".", "n", "a">> \/
       email_out.v = <<"n", "n", "@", "a", ".", "n", "a", "n">>

(***************************************************************************)
(* Properties of the sale rules (SpecSaleRules)                            *)
(***************************************************************************)
\* the record has a number under the key
Present(key) == key \in DOMAIN record /\ record[key].t = "number"

Rule(name) == sales_validations[1][name].v

\* C12: validate_total_price is True exactly when quantity, unit_price and
\* total_price are all present and |total_price - quantity * unit_price|
\* is below 0.01, zero operands included.
C12_TotalWithinTolerance ==
    pc = "validated" =>
        (Rule("validate_total_price") <=>
            /\ Present("quantity") /\ Present("unit_price")
            /\ Present("total_price")
            /\ LET diff == record.total_price.v
                              - record.quantity.v * record.unit_price.v
               IN -10 < diff /\ diff < 10)

\* C13: validate_prices is True exactly when unit_price and total_price
\* are both present and both are 0 or more.
C13_PricesNonNegative ==
    pc = "validated" =>
        (Rule("validate_prices") <=>
            /\ Present("unit_price") /\ Present("total_price")
            /\ record.unit_price.v >= 0
            /\ record.total_price.v >= 0)

(***************************************************************************)
(* Properties of the run (SpecRun)                                         *)
(***************************************************************************)
\* the rule columns of the two validation matrices
EmployeeRules == {"termination_is_after_hire", "termination_is_after_birthdate"}
SaleRules ==
    {"is_pending", "is_completed", "is_cancelled", "is_future_date",
     "validate_prices", "validate_total_price"}

\* no rule of the validation row is False
NoRuleFalse(vrow, rules) ==
    \A c \in rules : ~(vrow[c].t = "bool" /\ vrow[c].v = FALSE)

\* the row at position i of the table is among the instances created
KeptIn(instances, df, i) ==
    /\ instances.kind = "list"
    /\ \E k \in 1..Len(instances.items) :
          /\ instances.items[k].label = df.index[i]
          /\ instances.items[k].row = df.rows[i]

EmployeesStepDone == pc \in {"employees_created", "created", "halted"}
SalesStepDone ==
    pc = "created" \/ (pc = "halted" /\ employees.kind = "list")

\* C14: a record is kept by create_employee_instances and by
\* create_sale_instances exactly when no rule column of its row of the
\* validation matrix is False; None does not disqualify it.
C14_KeptIffNoRuleFalse ==
    /\ EmployeesStepDone =>
          \A i \in 1..Len(df_employees_clean.rows) :
             KeptIn(employees, df_employees_clean, i)
                <=> NoRuleFalse(employee_validations[i], EmployeeRules)
    /\ SalesStepDone =>
          \A i \in 1..Len(df_sales_clean.rows) :
             KeptIn(sales, df_sales_clean, i)
                <=> NoRuleFalse(sales_validations[i], SaleRules)

\* cleaning dropped a row of the loaded employee table
RowDropped ==
    /\ pc # "loaded"
    /\ Len(df_employees_clean.rows) < Len(employees_df.rows)

\* C15: when cleaning dropped an employee row for a missing identifier or
\* name, the run is not halted, and create_employee_instances selects
\* exactly the remaining rows whose own validation row has no False.
C15_DropDoesNotHalt ==
    RowDropped =>
        /\ pc # "halted"
        /\ pc \in {"employees_created", "created"} =>
              /\ employees.kind = "list"
              /\ \A i \in 1..Len(df_employees_clean.rows) :
                    KeptIn(employees, df_employees_clean, i)
                       <=> NoRuleFalse(employee_validations[i], EmployeeRules)
              /\ Len(employees.items) =
                    Cardinality({i \in 1..Len(df_employees_clean.rows) :
                        NoRuleFalse(employee_validations[i], EmployeeRules)})

\* the sale at position i of the cleaned table is completed, not dated
\* in the future, and priced at quantity * unit_price, no price negative
WellFormedSale(i) ==
    LET row == df_sales_clean.rows[i]
    IN /\ {"sale_status", "sale_date", "quantity", "unit_price",
           "total_price"} \subseteq df_sales_clean.columns
       /\ row.sale_status = PyStr(Capitalized(CompletedText))
       /\ row.sale_date.k \in {"str", "ts"}
       /\ row.sale_date.d >= 0 /\ row.sale_date.d <= Today
       /\ row.quantity.t = "number" /\ row.unit_price.t = "number"
       /\ row.total_price.t = "number"
       /\ row.unit_price.v >= 0 /\ row.total_price.v >= 0
       /\ row.total_price.v = row.quantity.v * row.unit_price.v

\* C29: a completed sale that is not dated in the future and whose prices
\* are non-negative and consistent is among the Sale objects that
\* create_sale_instances makes from the matrix of validate_sales.
C29_WellFormedSaleKept ==
    SalesStepDone =>
        \A i \in 1..Len(df_sales_clean.rows) :
           WellFormedSale(i) => KeptIn(sales, df_sales_clean, i)

(***************************************************************************)
(* Properties of the employee cleaner (SpecEmployees)                      *)
(***************************************************************************)
Cleaned == pc = "employees_cleaned"

\* C16: after clean_data no row has a missing employee_id or a missing
\* name, for every table that has at least one of the two columns.
C16_NoMissingRequired ==
    Cleaned =>
        \A i \in 1..Len(df_employees_clean.rows) :
            /\ "employee_id" \in df_employees_clean.columns =>
                  df_employees_clean.rows[i].employee_id # -1
            /\ "name" \in df_employees_clean.columns =>
                  df_employees_clean.rows[i].name.t = "str"

\* C17: after clean_data on a table with name and gender, the gender of
\* every row is infer_gender_from_name of its name, one of the four
\* labels, whatever was stored; clean_gender_from_name(name, g) is the
\* inferred gender for the name and the gender g of every row given.
C17_GenderIsInferred ==
    (Cleaned /\ {"name", "gender"} \subseteq employees_df.columns) =>
        /\ \A i \in 1..Len(df_employees_clean.rows) :
              LET r == df_employees_clean.rows[i]
              IN /\ r.gender = infer_gender_from_name(r.name)
                 /\ r.gender.v \in {<<"M", "a", "l", "e">>,
                                    <<"F", "e", "m", "a", "l", "e">>,
                                    <<"O", "t", "h", "e", "r">>,
                                    <<"U", "n", "k", "n", "o", "w", "n">>}
        /\ \A i \in 1..Len(employees_df.rows) :
              LET r == employees_df.rows[i]
              IN clean_gender_from_name(r.name, r.gender)
                    = infer_gender_from_name(r.name)

\* a row stored as Male with a name the detector takes for female comes out
\* Female, next to a row whose stored gender was right
C17_Witness ==
    /\ Cleaned
    /\ {"employee_id", "name", "gender"} \subseteq employees_df.columns
    /\ Len(employees_df.rows) = 2
    /\ Len(df_employees_clean.rows) = 2
    /\ employees_df.rows[1].gender.v = <<"M", "a", "l", "e">>
    /\ df_employees_clean.rows[1].gender.v = <<"F", "e", "m", "a", "l", "e">>
    /\ employees_df.rows[2].gender = df_employees_clean.rows[2].gender

(***************************************************************************)
(* Properties of the employee rules (SpecEmployeeRules)                    *)
(***************************************************************************)
\* the value the record holds under the key, None for no key
Held(key) == IF key \in DOMAIN record THEN record[key] ELSE PyNone

\* a date that is not there (None, NaN, NaT, the empty text) or a text
\* that is no date
MissingOrUnparseable(x) ==
    \/ x.t \in {"NoneType", "float", "NaTType"}
    \/ x.t = "str"
    \/ x.t = "datestr" /\ x.v = -1

\* days since 2021-01-01 of the days 0, 1, 2
DayNumber(d) == <<0, 365, 366>>[d + 1]

\* C18: termination_is_after_hire is None when the hire date or the
\* termination date is missing or unparseable; otherwise it is True exactly
\* when termination is one whole day or more after hire.
C18_TerminationAfterHire ==
    pc = "validated" =>
        LET r == employee_validations[1].termination_is_after_hire
            h == Held("hire_date")
            t == Held("termination_date")
        IN IF MissingOrUnparseable(h) \/ MissingOrUnparseable(t)
           THEN r.t = "NoneType"
           ELSE /\ r.t = "bool"
                /\ r.v = (DayNumber(t.v) - DayNumber(h.v) >= 1)

(***************************************************************************)
(* Properties of the sale status rules (SpecSaleRules)                     *)
(***************************************************************************)
\* text s spells word w in some letter case
Spells(s, w) ==
    /\ Len(s) = Len(w)
    /\ \A i \in 1..Len(w) :
          \/ s[i] = w[i]
          \/ <<s[i], w[i]>> \in {<<"N", "n">>, <<"P", "p">>, <<"C", "c">>}

\* C19: for every status value at most one of is_pending, is_completed and
\* is_cancelled is True, and is_cancelled is True for "cancelled" and for
\* "canceled" in any letter case.
C19_StatusExclusive ==
    pc = "validated" =>
        /\ Cardinality({c \in {"is_pending", "is_completed", "is_cancelled"} :
                           Rule(c)}) <= 1
        /\ ( /\ "sale_status" \in DOMAIN record
             /\ record.sale_status.t = "str"
             /\ \/ Spells(record.sale_status.v,
                          <<"c", "a", "n", "c", "e", "l", "l", "e", "d">>)
                \/ Spells(record.sale_status.v,
                          <<"c", "a", "n", "c", "e", "l", "e", "d">>) )
             => Rule("is_cancelled")

\* the status "CaNCeled" validated: cancelled, neither pending nor completed
C19_Witness ==
    /\ pc = "validated"
    /\ "sale_status" \in DOMAIN record
    /\ record.sale_status = [t |-> "str",
                              v |-> <<"C", "a", "N", "C", "e", "l", "e", "d">>]
    /\ Rule("is_cancelled")
    /\ ~Rule("is_pending") /\ ~Rule("is_completed")

(***************************************************************************)
(* Properties of the relations validator (SpecRelations)                   *)
(***************************************************************************)
\* the labelled rows of the sales table from position i on whose seller id
\* is no employee identifier
RECURSIVE SalesOfNoEmployee(_)
SalesOfNoEmployee(i) ==
    IF i > Len(sales_in.rows) THEN <<>>
    ELSE IF \E j \in 1..Len(employees_in.rows) :
               employees_in.rows[j]["Employee ID"]
                  = sales_in.rows[i]["Seller Employee ID"]
         THEN SalesOfNoEmployee(i + 1)
         ELSE << <<sales_in.index[i], sales_in.rows[i]>> >>
                 \o SalesOfNoEmployee(i + 1)

\* C20: validate_employee_ids_in_sales returns exactly the sales rows whose
\* seller id is no employee identifier, in the order of the sales table,
\* and leaves both tables as they were.
C20_ExactlyInvalidSellers ==
    pc = "returned" =>
        /\ [j \in 1..Len(result.rows) |-> <<result.index[j], result.rows[j]>>]
              = SalesOfNoEmployee(1)
        /\ Len(result.index) = Len(result.rows)
        /\ sales_df = sales_in
        /\ employees_df = employees_in

\* two sales labelled 1 and 0, the first by an employee, the second by
\* seller 4 whom the two employees do not include: the second is returned
C20_Witness ==
    /\ pc = "returned"
    /\ Len(employees_in.rows) = 2
    /\ sales_in.index = <<1, 0>>
    /\ sales_in.rows[1]["Seller Employee ID"]
          = employees_in.rows[2]["Employee ID"]
    /\ sales_in.rows[2]["Seller Employee ID"] = 4
    /\ result.index = <<0>>
    /\ result.rows = <<sales_in.rows[2]>>

\* the positions of the employee rows whose identifier is the seller id of
\* no sale
EmployeesOfNoSale ==
    {i \in 1..Len(employees_in.rows) :
        \A j \in 1..Len(sales_in.rows) :
            sales_in.rows[j]["Seller Employee ID"]
                # employees_in.rows[i]["Employee ID"]}

\* C21: validate_count_employees_without_sales equals the number of rows
\* of validate_employee_without_sales, and both equal the number of
\* employee rows whose identifier is the seller id of no sale; the rows
\* listed are those employee rows, each once.
C21_CountIsListLength ==
    pc = "counted" =>
        /\ count_no_sales.t = "number"
        /\ count_no_sales.v = Len(employees_no_sales.rows)
        /\ count_no_sales.v = Cardinality(EmployeesOfNoSale)
        /\ \E f \in [1..Len(employees_no_sales.rows) -> EmployeesOfNoSale] :
              /\ \A a, b \in DOMAIN f : f[a] = f[b] => a = b
              /\ \A a \in DOMAIN f :
                    employees_no_sales.rows[a] = employees_in.rows[f[a]]

\* two employees, the first the seller of both sales, the second of none:
\* the count is 1 and the second employee is the row listed
C21_Witness ==
    /\ pc = "counted"
    /\ Len(employees_in.rows) = 2 /\ Len(sales_in.rows) = 2
    /\ \A j \in 1..2 : sales_in.rows[j]["Seller Employee ID"]
                           = employees_in.rows[1]["Employee ID"]
    /\ employees_in.rows[2]["Employee ID"] # employees_in.rows[1]["Employee ID"]
    /\ count_no_sales.v = 1
    /\ employees_no_sales.rows = <<employees_in.rows[2]>>

(***************************************************************************)
(* Properties of the name check (SpecNames)                                *)
(***************************************************************************)
\* the name a cell holds, in lower case and without blanks at its ends;
\* a missing cell holds no name
NameOf(row, col) ==
    IF col \in DOMAIN row /\ row[col].t = "str"
    THEN <<"name", TrimmedLower(row[col].v)>>
    ELSE <<"no name", col>>

\* the first and last name of sale j are those of some employee
NameOfSomeEmployee(j) ==
    \E k \in 1..Len(employees_in.rows) :
        /\ NameOf(sales_in.rows[j], "Seller First Name")
              = NameOf(employees_in.rows[k], "First Name")
        /\ NameOf(sales_in.rows[j], "Seller Last Name")
              = NameOf(employees_in.rows[k], "Last Name")

\* the labelled rows of table df
Labelled(df) == [j \in 1..Len(df.rows) |-> <<df.index[j], df.rows[j]>>]

\* C22: validate_employee_names_in_sales returns exactly the sales whose
\* first and last name, lowercased and trimmed, are the first and last
\* name of no single employee, whatever their seller id.
C22_ExactlyNameMismatches ==
    pc = "named" =>
        /\ Labelled(invalid_names) =
              SelectSeq(Labelled(sales_in),
                        LAMBDA x : \E j \in 1..Len(sales_in.rows) :
                            /\ x = <<sales_in.index[j], sales_in.rows[j]>>
                            /\ ~NameOfSomeEmployee(j))
        /\ sales_df = sales_in /\ employees_df = employees_in

\* employees "a n" and "n a": the sale of "a N " by the unknown seller 4 is
\* no mismatch, the sale of "a a" by employee 1 is the one returned
C22_Witness ==
    /\ pc = "named"
    /\ Len(employees_in.rows) = 2
    /\ employees_in.rows[1]["First Name"] # employees_in.rows[2]["First Name"]
    /\ Len(sales_in.rows) = 2
    /\ "Seller First Name" \in sales_in.columns
    /\ sales_in.rows[1]["Seller Employee ID"] = 4
    /\ sales_in.rows[1]["Seller Last Name"].v = <<"N", " ">>
    /\ sales_in.rows[2]["Seller Employee ID"] = 1
    /\ sales_in.rows[2]["Seller Last Name"].v = <<"a">>
    /\ sales_in.rows[2]["Seller First Name"].v = <<"a">>
    /\ invalid_names.rows = <<sales_in.rows[2]>>

\* the seller id of sale j is the identifier of no employee
UnknownSeller(j) ==
    \A k \in 1..Len(employees_in.rows) :
        employees_in.rows[k]["Employee ID"]
            # sales_in.rows[j]["Seller Employee ID"]

\* sale j is among the rows validate_employee_names_in_sales returned
ReportedByName(j) ==
    \E a \in 1..Len(invalid_names.rows) :
        /\ invalid_names.index[a] = sales_in.index[j]
        /\ invalid_names.rows[a] = sales_in.rows[j]

\* C23 as stated: every sale whose seller id is no employee identifier is
\* returned by validate_employee_names_in_sales, so that it returns at
\* least as many sales as validate_employee_ids_in_sales.
C23_UnknownSellerIsMismatch ==
    pc = "named" =>
        /\ \A j \in 1..Len(sales_in.rows) :
              UnknownSeller(j) => ReportedByName(j)
        /\ Len(invalid_names.rows) >= Len(result.rows)

\* C23 amended: a sale whose seller id is no employee identifier is
\* returned by validate_employee_names_in_sales exactly when its first and
\* last name are those of no employee; the sales returned are at least the
\* sales of unknown sellers with such a name.
C23_UnknownSellerByNameOnly ==
    pc = "named" =>
        /\ \A j \in 1..Len(sales_in.rows) :
              UnknownSeller(j) =>
                  (ReportedByName(j) <=> ~NameOfSomeEmployee(j))
        /\ Len(invalid_names.rows) >=
              Cardinality({j \in 1..Len(sales_in.rows) :
                              UnknownSeller(j) /\ ~NameOfSomeEmployee(j)})

\* a sale of the unknown seller 4 under the name of an employee: one sale
\* with an invalid seller id, no sale with an invalid name
C23_Witness ==
    /\ pc = "named"
    /\ Len(sales_in.rows) = 1
    /\ UnknownSeller(1) /\ NameOfSomeEmployee(1)
    /\ Len(result.rows) = 1
    /\ Len(invalid_names.rows) = 0

(***************************************************************************)
(* Properties of the thread pools of main (SpecPool)                       *)
(***************************************************************************)
\* the step submits task t
Submits(t) == tasks[t].st = "none" /\ tasks'[t].st = "queued"

\* task t is submitted and main has not waited for it
NotWaitedFor(t) == tasks[t].st \in {"queued", "running", "done"}

\* C25: main submits the sales load while it has not waited for the
\* employee load, the sales validation while it has not waited for the
\* employee validation, and the write of the sales table while it has not
\* waited for the write of the employee table, so that the two tasks of
\* each pair can be in flight at the same time.
C25_PairsSubmittedTogether ==
    [][ /\ Submits("load_sales") => NotWaitedFor("load_employees")
        /\ Submits("validate_sales") => NotWaitedFor("validate_employees")
        /\ Submits("write_sales") => NotWaitedFor("write_employees") ]_vars
(***************************************************************************)
(* Properties of calculate_relations (SpecStats)                           *)
(***************************************************************************)
Related == pc = "related"

RelationCounts ==
    {"employees_without_sales", "employees_with_sales",
     "invalid_employee_ids_in_sales", "invalid_names_in_sales",
     "sales_with_valid_employee", "sales_with_invalid_employee",
     "sales_reassigned"}

\* C30: in the mapping calculate_relations returns, the employees with and
\* without sales add up to the employee rows, the sales with a valid and
\* with an invalid employee add up to the sale rows, the invalid ids are
\* the sales with an invalid employee, no count is negative and
\* sales_reassigned is 0; the call changes neither table.
C30_CountsAddUp ==
    /\ [](Related =>
            LET st == relation_stats.items
            IN /\ DOMAIN st = RelationCounts
               /\ st.employees_with_sales + st.employees_without_sales
                     = Len(df_employees_clean.rows)
               /\ st.sales_with_valid_employee + st.sales_with_invalid_employee
                     = Len(df_sales_clean.rows)
               /\ st.invalid_employee_ids_in_sales
                     = st.sales_with_invalid_employee
               /\ \A c \in RelationCounts : st[c] >= 0
               /\ st.sales_reassigned = 0)
    /\ [][pc = "created" =>
            /\ df_employees_clean' = df_employees_clean
            /\ df_sales_clean' = df_sales_clean]_vars

\* a mapping made after reconciliation gave a sale another seller, for an
\* employee with two sales and a sale of an unknown seller
C30_Witness ==
    /\ Related
    /\ \E j \in 1..Len(sales_in.rows) :
          df_sales_clean.rows[j].seller_employee_id
             # sales_in.rows[j].seller_employee_id
    /\ \E j1, j2 \in 1..Len(df_sales_clean.rows) :
          /\ j1 # j2
          /\ df_sales_clean.rows[j1].seller_employee_id
                = df_sales_clean.rows[j2].seller_employee_id
          /\ \E i \in 1..Len(df_employees_clean.rows) :
                df_employees_clean.rows[i].employee_id
                   = df_sales_clean.rows[j1].seller_employee_id
    /\ relation_stats.items.employees_with_sales > 0
    /\ relation_stats.items.employees_without_sales > 0

====
